---------------------------- MODULE Spec2Model ----------------------------
(***************************************************************************)
(* Work-log aggregate, entry state machine and scheduled e-mail dispatch   *)
(* of StockBrain (engine/worklog, engine/inventory/views.py).              *)
(*                                                                         *)
(* The relational store is the variable db (tables worklogs, entries,      *)
(* history and the two primary-key sequences).  Handlers are written as    *)
(* operators from a store to a store, and the actions apply them.  A       *)
(* handler that reads a row and writes it later (update_work_log, the      *)
(* sweep, change_worklog_entry_state) is split where other requests can    *)
(* run in between.                                                         *)
(*                                                                         *)
(* Time is counted in ticks, TicksPerDay ticks to a day.  A nullable       *)
(* column is <<>> (NULL) or <<v>>.                                         *)
(***************************************************************************)
EXTENDS Integers, Sequences, FiniteSets, TLC

\* ------------------------------------------------------------------ bounds
MaxWorkLogs == 2        \* work logs ever created
MaxEntries == 2         \* entries submitted in one request
MaxNow == 2             \* last tick of the clock
TicksPerDay == 2        \* resolution of the clock
MaxEntryIds == 3        \* entry rows ever inserted
MaxHistory == 3         \* state-change records ever written
MaxMail == 3            \* entries of the mail log
MaxSettingsIds == 3     \* InventorySettings rows ever inserted
MaxItems == 2           \* inventory items ever created
MaxPages == 15          \* pages of a paginated list

None == <<>>
Some(v) == <<v>>
IsNull(x) == x = <<>>
Val(x) == x[1]

\* the element of a one-element set; Only({F(x) : x \in {v}}) is F(v) with v
\* computed once
Only(S) == CHOOSE y \in S : TRUE

\* ------------------------------------------------------------ users, text
Lowers == <<"a", "b", "d", "e", "i", "l", "m", "n", "o", "r", "s", "t", "f", "u", "y">>
Uppers == <<"A", "B", "D", "E", "I", "L", "M", "N", "O", "R", "S", "T", "F", "U", "Y">>

IndexIn(c, s) == IF \E i \in 1..Len(s) : s[i] = c
                 THEN CHOOSE i \in 1..Len(s) : s[i] = c
                 ELSE 0
IsLetter(c) == IndexIn(c, Lowers) > 0 \/ IndexIn(c, Uppers) > 0
ToUpper(c) == IF IndexIn(c, Lowers) > 0 THEN Uppers[IndexIn(c, Lowers)] ELSE c
ToLower(c) == IF IndexIn(c, Uppers) > 0 THEN Lowers[IndexIn(c, Uppers)] ELSE c

\* str.strip(): leading and trailing blanks removed
RECURSIVE LStrip(_)
LStrip(s) == IF s # <<>> /\ Head(s) = " " THEN LStrip(Tail(s)) ELSE s
RECURSIVE RStrip(_)
RStrip(s) == IF s # <<>> /\ s[Len(s)] = " " THEN RStrip(SubSeq(s, 1, Len(s) - 1)) ELSE s
Strip(s) == RStrip(LStrip(s))

\* str.title(): a letter that follows a letter is lowered, any other letter raised
Title(s) == [i \in 1..Len(s) |->
               IF i > 1 /\ IsLetter(s[i - 1]) THEN ToLower(s[i]) ELSE ToUpper(s[i])]

\* str.replace(c, r) for a one-character c and a replacement sequence r
RECURSIVE Replace(_, _, _)
Replace(s, c, r) == IF s = <<>> THEN <<>>
                    ELSE (IF Head(s) = c THEN r ELSE <<Head(s)>>) \o Replace(Tail(s), c, r)

\* "-".join(parts)
RECURSIVE Join(_)
Join(parts) == IF parts = <<>> THEN <<>>
               ELSE IF Len(parts) = 1 THEN parts[1]
               ELSE parts[1] \o <<"-">> \o Join(Tail(parts))

Users == {"u1", "u2"}

\* the accounts that can log in: the two authors and a third user whose
\* username is the designated one in another letter case
Accounts == Users \cup {"u3"}

UserTable ==
  [u \in Accounts |->
     IF u = "u1"
     THEN [username   |-> <<"l", "e", "o", "-", "a", "d", "m", "i", "n">>,
           first_name |-> <<"l", "e", "o">>,
           last_name  |-> <<" ", "a", "d", "m", "i", "n">>,
           is_staff   |-> TRUE]
     ELSE IF u = "u3"
     THEN [username   |-> <<"L", "e", "o", "-", "A", "d", "m", "i", "n">>,
           first_name |-> <<>>,
           last_name  |-> <<>>,
           is_staff   |-> FALSE]
     ELSE [username   |-> <<"b", "o", " ", "b">>,
           first_name |-> <<>>,
           last_name  |-> <<>>,
           is_staff   |-> FALSE]]

format_author_segment(u) ==
  LET usr == UserTable[u]
      p1 == IF usr.first_name # <<>>
            THEN <<Replace(Title(Strip(usr.first_name)), " ", <<>>)>> ELSE <<>>
      p2 == IF usr.last_name # <<>>
            THEN <<Replace(Title(Strip(usr.last_name)), " ", <<>>)>> ELSE <<>>
      parts == p1 \o p2
  IN Join(IF parts = <<>> THEN <<Replace(usr.username, " ", <<"_">>)>> ELSE parts)

\* due_date.strftime("%y%m%d"); day d of the model is 2025-03-10 plus d days
DueStr(d) == <<25, 3, 10 + d>>

WlNumber(due, u) == <<"WL", DueStr(due), format_author_segment(u)>>

\* ------------------------------------------------------------------ state
VARIABLES
  now,      \* the clock, in ticks
  db,       \* worklogs, entries, history (tables) and the id sequences
  std,      \* StandardWorkHours singleton: <<>> or <<[start_time, end_time]>>
  cond,     \* EditCondition singleton: <<>> or <<[only_last_wl_editable, editable_time_since_created]>>
  rule,     \* WorklogEmailSettings singleton: <<>> or <<[send_new, send_edit, ...]>>
  outbox,   \* the mail log: schedulings and deliveries, oldest first
  upd,      \* update_work_log in flight: the row it loaded
  chg,      \* change_worklog_entry_state requests in flight
  swp,      \* the sweep in flight: the rows it selected (qs), those not yet
            \* processed (todo), its counters
  resp,     \* the last request and its response
  inv       \* the inventory application: InventorySettings rows, lookups in flight

vars == <<now, db, std, cond, rule, outbox, upd, chg, swp, resp, inv>>

JobStates == {"open", "done"}

\* the requests that may be in flight at the same time
Requests == {"r1", "r2"}

EmptyDb == [worklogs |-> <<>>, entries |-> <<>>, history |-> <<>>,
            wl_seq |-> 0, entry_seq |-> 0]

\* a table is a function from the primary keys in use to rows
Ids(table) == DOMAIN table
Put(table, id, row) == [i \in (DOMAIN table) \cup {id} |-> IF i = id THEN row ELSE table[i]]
Drop(table, ids) == [i \in (DOMAIN table) \ ids |-> table[i]]

EntriesOf(d, wl) == {e \in Ids(d.entries) : d.entries[e].worklog = wl}

\* ------------------------------------------------------- e-mail rule, send
Recipients == {<<>>, <<" ">>, <<"o", "p", "s">>}

\* _get_email_rule: the recipient, or None when sending is not allowed
get_email_rule(r, user, is_new) ==
  IF IsNull(r) THEN None
  ELSE IF is_new /\ ~Val(r).send_new THEN None
  ELSE IF ~is_new /\ ~Val(r).send_edit THEN None
  ELSE IF Val(r).recipient_email = <<>> THEN None
  ELSE IF Val(r).users # {} /\ user \notin Val(r).users THEN None
  ELSE Some(Val(r).recipient_email)

\* send_worklog_docx_email up to the transport: the recipient the message
\* would go to, or None when the rule stops it
sender_recipient(r, author, is_new) ==
  IF IsNull(r) THEN None
  ELSE IF is_new /\ ~Val(r).send_new THEN None
  ELSE IF ~is_new /\ ~Val(r).send_edit THEN None
  ELSE IF author \notin Val(r).users THEN None
  ELSE IF Strip(Val(r).recipient_email) = <<>> THEN None
  ELSE Some(Strip(Val(r).recipient_email))

\* send_worklog_docx_email: the recipient when the message was handed to the
\* transport and the transport delivered it (transport_ok), else None
send_worklog_docx_email(r, author, is_new, transport_ok) ==
  IF transport_ok THEN sender_recipient(r, author, is_new) ELSE None

\* combine(due_date, end_time) as an instant of the clock
Combine(due, tod) == due * TicksPerDay + tod

\* (mutant) the target is rolled forward only when it is strictly before now
compute_schedule_dt_strict(due, end_time, hours, t) ==
  LET target == IF IsNull(end_time)
                THEN (IF IsNull(hours) THEN None ELSE Some(Val(hours).end_time))
                ELSE end_time
  IN IF IsNull(target) THEN None
     ELSE IF Combine(due, Val(target)) < t
          THEN Some(Combine(due, Val(target)) + TicksPerDay)
          ELSE Some(Combine(due, Val(target)))

\* _compute_schedule_dt
compute_schedule_dt(due, end_time, hours, t) ==
  LET target == IF IsNull(end_time)
                THEN (IF IsNull(hours) THEN None ELSE Some(Val(hours).end_time))
                ELSE end_time
  IN IF IsNull(target) THEN None
     ELSE IF Combine(due, Val(target)) <= t
          THEN Some(Combine(due, Val(target)) + TicksPerDay)
          ELSE Some(Combine(due, Val(target)))

\* wl.save(update_fields=[...]) of the three e-mail columns; no row: DatabaseError
SaveEmailFields(d, id, pending, sched, sent) ==
  IF id \in Ids(d.worklogs)
  THEN [d EXCEPT !.worklogs[id].email_pending = pending,
                 !.worklogs[id].email_scheduled_at = sched,
                 !.worklogs[id].email_sent_at = sent]
  ELSE d

mark_email_pending(d, id, sched) == SaveEmailFields(d, id, TRUE, sched, None)

\* (mutant) the send leaves the scheduled instant in place
mark_email_sent_keeping_schedule(d, id, t) ==
  IF id \in Ids(d.worklogs)
  THEN SaveEmailFields(d, id, FALSE, d.worklogs[id].email_scheduled_at, Some(t))
  ELSE d

mark_email_sent(d, id, t) == SaveEmailFields(d, id, FALSE, None, Some(t))

MailEvent(kind, wl, op) == [kind |-> kind, wl |-> wl, op |-> op]

\* the e-mail part of create_work_log (is_new) and update_work_log: the store,
\* the mail log and the two values reported to the caller
EmailAfterSave(d, box, r, id, row, user, is_new, send_mode, transport_ok, hours, t, op) ==
  LET immediate == send_worklog_docx_email(r, row.author, is_new, transport_ok)
      sent == [db |-> IF IsNull(immediate) THEN d ELSE mark_email_sent(d, id, t),
               outbox |-> IF IsNull(immediate) THEN box
                          ELSE Append(box, MailEvent("delivered", id, op)),
               email_recipient |-> immediate, scheduled_at |-> None]
      nothing == [db |-> d, outbox |-> box, email_recipient |-> None, scheduled_at |-> None]
      sched == compute_schedule_dt(row.due_date, row.end_time, hours, t)
  IN IF send_mode = "schedule"
     THEN IF IsNull(get_email_rule(r, user, is_new)) THEN nothing
          ELSE IF IsNull(sched) THEN nothing
          ELSE IF Val(sched) <= t THEN sent
          ELSE [db |-> mark_email_pending(d, id, sched),
                outbox |-> Append(box, MailEvent("scheduled", id, op)),
                email_recipient |-> None, scheduled_at |-> sched]
     ELSE sent

\* ------------------------------------------------------ work-log aggregate
\* numeric(5,2): time_hours, in hundredths of an hour, must stay below 1000.00
TimeHoursLimit == 100000

EntryPersistable(p) == p.time_hours < TimeHoursLimit

InsertEntry(d, wl, p) ==
  [d EXCEPT !.entry_seq = @ + 1,
            !.entries = Put(@, d.entry_seq + 1,
                            [worklog |-> wl, state |-> p.state, job |-> p.job,
                             time_hours |-> p.time_hours])]

\* the loop of WorkLogEntry.objects.create: it stops at the first row the store refuses
RECURSIVE CreateEntries(_, _, _)
CreateEntries(d, wl, payload) ==
  IF payload = <<>> THEN [status |-> "ok", db |-> d]
  ELSE IF ~EntryPersistable(Head(payload)) THEN [status |-> "error", db |-> d]
  ELSE CreateEntries(InsertEntry(d, wl, Head(payload)), wl, Tail(payload))

\* (mutant) the number is generated again on every save
WorkLogSaveRenumbering(row, hours) ==
  LET dflt == IF IsNull(hours) THEN [start_time |-> None, end_time |-> None]
              ELSE [start_time |-> Some(Val(hours).start_time),
                    end_time |-> Some(Val(hours).end_time)]
      fill == IsNull(row.start_time) \/ IsNull(row.end_time)
  IN [row EXCEPT
        !.start_time = IF fill /\ IsNull(@) THEN dflt.start_time ELSE @,
        !.end_time = IF fill /\ IsNull(@) THEN dflt.end_time ELSE @,
        !.wl_number = WlNumber(row.due_date, row.author)]

\* WorkLog.save: default hours for missing times, number generated only when missing
WorkLogSave(row, hours) ==
  LET dflt == IF IsNull(hours) THEN [start_time |-> None, end_time |-> None]
              ELSE [start_time |-> Some(Val(hours).start_time),
                    end_time |-> Some(Val(hours).end_time)]
      fill == IsNull(row.start_time) \/ IsNull(row.end_time)
  IN [row EXCEPT
        !.start_time = IF fill /\ IsNull(@) THEN dflt.start_time ELSE @,
        !.end_time = IF fill /\ IsNull(@) THEN dflt.end_time ELSE @,
        !.wl_number = IF @ = <<>> THEN WlNumber(row.due_date, row.author) ELSE @]

\* (mutant) no unique constraint
NumberNeverTaken(d, id, num) == FALSE

\* unique=True on wl_number
NumberTaken(d, id, num) ==
  \E i \in Ids(d.worklogs) \ {id} : d.worklogs[i].wl_number = num

\* Model.save of a work log with primary key id: UPDATE, or INSERT when no row
\* has the key (created_at is auto_now_add); IntegrityError on a taken number
StoreWorkLog(d, id, row0, hours, t) ==
  LET Store(saved) ==
        LET row == IF id \in Ids(d.worklogs) THEN saved ELSE [saved EXCEPT !.created_at = t]
        IN IF NumberTaken(d, id, row.wl_number)
           THEN [status |-> "integrity", db |-> d, row |-> row]
           ELSE [status |-> "ok", db |-> [d EXCEPT !.worklogs = Put(@, id, row)],
                 row |-> row]
  IN Only({Store(saved) : saved \in {WorkLogSave(row0, hours)}})

\* (mutant) the previous entries are kept, the submitted ones are added to them
DeleteNoEntries(d, ids) == d

\* wl.entries.all().delete(), with on_delete=CASCADE from WorkLogEntry to its
\* WorkLogEntryStateChange rows
DeleteEntries(d, ids) ==
  [d EXCEPT !.entries = Drop(@, ids),
            !.history = SelectSeq(@, LAMBDA h : h.entry \notin ids)]

\* (mutant) no rollback: what the block wrote before it raised stays
TransactionWithoutRollback(before, res) == res.db

\* `with transaction.atomic()`: the block's writes are kept only if it raised nothing
TransactionAtomic(before, res) == IF res.status = "ok" THEN res.db ELSE before

NewWorkLog(u, due, start, end, notes) ==
  [author |-> u, due_date |-> due, created_at |-> 0, wl_number |-> <<>>,
   start_time |-> start, end_time |-> end, notes |-> notes,
   email_pending |-> FALSE, email_scheduled_at |-> None, email_sent_at |-> None]

\* the atomic block of create_work_log
CreateBlock(d, u, due, start, end, notes, payload, hours, t) ==
  LET id == d.wl_seq + 1
      Entries(s) ==
        IF s.status # "ok" THEN [status |-> s.status, db |-> s.db, id |-> id, row |-> s.row]
        ELSE LET r == CreateEntries(s.db, id, payload)
             IN [status |-> r.status, db |-> r.db, id |-> id, row |-> s.row]
  IN Only({Entries(s) : s \in {StoreWorkLog([d EXCEPT !.wl_seq = id], id,
                                             NewWorkLog(u, due, start, end, notes),
                                             hours, t)}})

\* the atomic block of update_work_log, wl being the row the request loaded
UpdateBlock(d, id, wl, due, start, end, notes, payload, hours, t) ==
  LET Entries(s) ==
        IF s.status # "ok" THEN [status |-> s.status, db |-> s.db, id |-> id, row |-> s.row]
        ELSE LET r == CreateEntries(DeleteEntries(s.db, EntriesOf(s.db, id)), id, payload)
             IN [status |-> r.status, db |-> r.db, id |-> id, row |-> s.row]
  IN Only({Entries(s) : s \in {StoreWorkLog(d, id,
                                             [wl EXCEPT !.due_date = due,
                                                        !.start_time = start,
                                                        !.end_time = end,
                                                        !.notes = notes],
                                             hours, t)}})

\* the except clauses: IntegrityError is answered 400 with the message about the
\* number that already exists, any other exception 500 with the save-failed one
ErrorStatus(status) == IF status = "integrity" THEN 400 ELSE 500
ErrorText(status) == IF status = "integrity" THEN "duplicate" ELSE "failed"


\* ---------------------------------------------------------------- requests
Request(op, phase, user, pk, arg, status) ==
  [op |-> op, phase |-> phase, user |-> user, pk |-> pk, arg |-> arg, status |-> status]

\* status 0 is that of a request that has not answered yet
Tick ==
  /\ now < MaxNow
  /\ now' = now + 1
  /\ resp' = Request("tick", "done", "", 0, <<>>, 200)
  /\ UNCHANGED <<db, std, cond, rule, inv, outbox, upd, chg, swp>>

\* create_work_log; due is <<>> when the form carries no due date
create_work_log(u, due, start, end, notes, payload, send_mode, transport_ok) ==
  LET req(status, error) == Request("create_work_log", "done", u, 0,
                                    IF status = 200 THEN payload ELSE <<error>>, status)
  IN /\ IF IsNull(due) \/ payload = <<>>
        THEN /\ resp' = req(400, "invalid")
             /\ UNCHANGED <<db, outbox>>
        ELSE \E res \in {CreateBlock(db, u, Val(due), start, end, notes, payload, std, now)} :
             \E kept \in {TransactionAtomic(db, res)} :
               IF res.status # "ok"
               THEN /\ resp' = req(ErrorStatus(res.status), ErrorText(res.status))
                    /\ db' = kept
                    /\ UNCHANGED outbox
               ELSE \E m \in {EmailAfterSave(kept, outbox, rule, res.id, res.row, u, TRUE,
                                              send_mode, transport_ok, std, now, "create")} :
                      /\ resp' = [req(200, "") EXCEPT !.pk = res.id]
                      /\ db' = m.db
                      /\ outbox' = m.outbox
     /\ UNCHANGED <<now, std, cond, rule, inv, upd, chg, swp>>

\* the author's most recently created work log (order_by("-created_at").first());
\* rows stamped in the same tick were created in the order of their keys
Newer(d, i, j) == \/ d.worklogs[i].created_at > d.worklogs[j].created_at
                  \/ d.worklogs[i].created_at = d.worklogs[j].created_at /\ i > j

LastId(d, u) ==
  LET mine == {i \in Ids(d.worklogs) : d.worklogs[i].author = u}
  IN IF mine = {} THEN 0
     ELSE CHOOSE i \in mine : \A j \in mine \ {i} : Newer(d, i, j)

\* (mutant) one satisfied condition is enough
EditConditionsAnyMet(d, cnd, u, pk, t) ==
  LET only_last == IF IsNull(cnd) THEN FALSE ELSE Val(cnd).only_last_wl_editable
      hours_limit == IF IsNull(cnd) THEN 0 ELSE Val(cnd).editable_time_since_created
      time_ok == hours_limit = 0
                 \/ (t - d.worklogs[pk].created_at) * 24 <= hours_limit * TicksPerDay
      last_ok == ~only_last \/ pk = LastId(d, u)
  IN time_ok \/ last_ok

\* the edit conditions of update_work_log: diff_hours <= hours_limit, with
\* diff_hours = ticks * 24 / TicksPerDay
EditConditionsMet(d, cnd, u, pk, t) ==
  LET only_last == IF IsNull(cnd) THEN FALSE ELSE Val(cnd).only_last_wl_editable
      hours_limit == IF IsNull(cnd) THEN 0 ELSE Val(cnd).editable_time_since_created
      time_ok == hours_limit = 0
                 \/ (t - d.worklogs[pk].created_at) * 24 <= hours_limit * TicksPerDay
      last_ok == ~only_last \/ pk = LastId(d, u)
  IN time_ok /\ last_ok

\* update_work_log up to its atomic block: 404, 403, or the row is loaded
UpdateGet(u, pk) ==
  /\ IsNull(upd)
  /\ IF pk \notin Ids(db.worklogs)
     THEN /\ resp' = Request("update_work_log", "get", u, pk, <<>>, 404)
          /\ UNCHANGED upd
     ELSE IF db.worklogs[pk].author # u \/ ~EditConditionsMet(db, cond, u, pk, now)
     THEN /\ resp' = Request("update_work_log", "get", u, pk, <<>>, 403)
          /\ UNCHANGED upd
     ELSE /\ resp' = Request("update_work_log", "get", u, pk, <<>>, 0)
          /\ upd' = Some([id |-> pk, user |-> u, wl |-> db.worklogs[pk]])
  /\ UNCHANGED <<now, db, std, cond, rule, inv, outbox, chg, swp>>

\* update_work_log from the parsing of the form on: the atomic block, then the e-mail
UpdateCommit(due, start, end, notes, payload, send_mode, transport_ok) ==
  LET id == Val(upd).id
      u == Val(upd).user
      req(status, error) == Request("update_work_log", "commit", u, id,
                                    IF status = 200 THEN payload ELSE <<error>>, status)
  IN /\ ~IsNull(upd)
     /\ upd' = None
     /\ IF IsNull(due) \/ payload = <<>>
        THEN /\ resp' = req(400, "invalid")
             /\ UNCHANGED <<db, outbox>>
        ELSE \E res \in {UpdateBlock(db, id, Val(upd).wl, Val(due), start, end, notes,
                                      payload, std, now)} :
             \E kept \in {TransactionAtomic(db, res)} :
               IF res.status # "ok"
               THEN /\ resp' = req(ErrorStatus(res.status), ErrorText(res.status))
                    /\ db' = kept
                    /\ UNCHANGED outbox
               ELSE \E m \in {EmailAfterSave(kept, outbox, rule, id, res.row, u, FALSE,
                                              send_mode, transport_ok, std, now, "update")} :
                      /\ resp' = req(200, "")
                      /\ db' = m.db
                      /\ outbox' = m.outbox
     /\ UNCHANGED <<now, std, cond, rule, inv, chg, swp>>

\* delete_work_log: the designated account only; entries and their history cascade
delete_work_log(u, pk) ==
  /\ IF [i \in 1..Len(UserTable[u].username) |-> ToLower(UserTable[u].username[i])]
        # <<"l", "e", "o", "-", "a", "d", "m", "i", "n">>
     THEN /\ resp' = Request("delete_work_log", "done", u, pk, <<>>, 403)
          /\ UNCHANGED db
     ELSE IF pk \notin Ids(db.worklogs)
     THEN /\ resp' = Request("delete_work_log", "done", u, pk, <<>>, 404)
          /\ UNCHANGED db
     ELSE /\ resp' = Request("delete_work_log", "done", u, pk, <<>>, 200)
          /\ db' = [DeleteEntries(db, EntriesOf(db, pk)) EXCEPT !.worklogs = Drop(@, {pk})]
  /\ UNCHANGED <<now, std, cond, rule, inv, outbox, upd, chg, swp>>


\* (mutant) the unchanged-state guard is gone
StateUnchangedNever(old_state, new) == FALSE

\* `old_state and old_state.id == new_state.id` (state is a NOT NULL column)
StateUnchanged(old_state, new) == old_state = new

\* change_worklog_entry_state up to its writes: 404, 400, the no-op answer for
\* an unchanged state, or the entry's state is read and the request goes on
ChangeStateGet(r, u, pk, new) ==
  /\ IsNull(chg[r])
  /\ IF pk \notin Ids(db.entries)
     THEN /\ resp' = Request("change_worklog_entry_state", "get", u, pk, new, 404)
          /\ UNCHANGED chg
     ELSE IF new \notin JobStates
     THEN /\ resp' = Request("change_worklog_entry_state", "get", u, pk, new, 400)
          /\ UNCHANGED chg
     ELSE IF StateUnchanged(db.entries[pk].state, new)
     THEN /\ resp' = Request("change_worklog_entry_state", "get", u, pk, new, 200)
          /\ UNCHANGED chg
     ELSE /\ resp' = Request("change_worklog_entry_state", "get", u, pk, new, 0)
          /\ chg' = [chg EXCEPT ![r] = Some([entry |-> pk, old_state |-> db.entries[pk].state,
                                             new_state |-> new, user |-> u])]
  /\ UNCHANGED <<now, db, std, cond, rule, inv, outbox, upd, swp>>

RecordStateChange(d, c, t) ==
  [d EXCEPT !.entries[c.entry].state = c.new_state,
            !.history = Append(@, [entry |-> c.entry, old_state |-> c.old_state,
                                   new_state |-> c.new_state, changed_by |-> c.user,
                                   changed_at |-> t])]

\* change_worklog_entry_state from entry.save(update_fields=["state"]) on
ChangeStateWrite(r) ==
  /\ ~IsNull(chg[r])
  /\ chg' = [chg EXCEPT ![r] = None]
  /\ IF Val(chg[r]).entry \notin Ids(db.entries)
     THEN /\ resp' = Request("change_worklog_entry_state", "write", Val(chg[r]).user,
                             Val(chg[r]).entry, Val(chg[r]).new_state, 500)
          /\ UNCHANGED db
     ELSE /\ resp' = Request("change_worklog_entry_state", "write", Val(chg[r]).user,
                             Val(chg[r]).entry, Val(chg[r]).new_state, 200)
          /\ db' = RecordStateChange(db, Val(chg[r]), now)
  /\ UNCHANGED <<now, std, cond, rule, inv, outbox, upd, swp>>

\* send_work_log_now: the gate is asked about the requesting user, the sender
\* about the author; the row is marked sent whatever its e-mail columns held
send_work_log_now(u, pk, transport_ok) ==
  LET req(status) == Request("send_work_log_now", "done", u, pk, <<>>, status)
  IN /\ IF pk \notin Ids(db.worklogs)
        THEN /\ resp' = req(404)
             /\ UNCHANGED <<db, outbox>>
        ELSE IF db.worklogs[pk].author # u /\ ~UserTable[u].is_staff
        THEN /\ resp' = req(403)
             /\ UNCHANGED <<db, outbox>>
        ELSE IF IsNull(get_email_rule(rule, u, FALSE))
        THEN /\ resp' = req(400)
             /\ UNCHANGED <<db, outbox>>
        ELSE IF IsNull(send_worklog_docx_email(rule, db.worklogs[pk].author, FALSE,
                                               transport_ok))
        THEN /\ resp' = req(500)
             /\ UNCHANGED <<db, outbox>>
        ELSE /\ resp' = req(200)
             /\ db' = mark_email_sent(db, pk, now)
             /\ outbox' = Append(outbox, MailEvent("delivered", pk, "send_now"))
     /\ UNCHANGED <<now, std, cond, rule, inv, upd, chg, swp>>

\* (mutant) the sweep takes every pending row, due or not
PendingAny(d, t) ==
  {i \in Ids(d.worklogs) : d.worklogs[i].email_pending}

\* the rows the sweep selects: pending, scheduled at or before t, never sent
PendingAt(d, t) ==
  {i \in Ids(d.worklogs) : /\ d.worklogs[i].email_pending
                           /\ ~IsNull(d.worklogs[i].email_scheduled_at)
                           /\ Val(d.worklogs[i].email_scheduled_at) <= t
                           /\ IsNull(d.worklogs[i].email_sent_at)}

\* Meta.ordering of WorkLog: -due_date, -created_at; rows equal on both come
\* in any order
ListedBefore(d, i, j) ==
  \/ d.worklogs[i].due_date > d.worklogs[j].due_date
  \/ /\ d.worklogs[i].due_date = d.worklogs[j].due_date
     /\ d.worklogs[i].created_at > d.worklogs[j].created_at

Listings(d, ids) ==
  {s \in [1..Cardinality(ids) -> ids] :
     /\ \A a, b \in DOMAIN s : a # b => s[a] # s[b]
     /\ \A a, b \in DOMAIN s : a < b => ~ListedBefore(d, s[b], s[a])}

\* send_pending_worklogs up to its loop: nothing to do, or the selected rows
\* are read into memory
SweepStart ==
  /\ IsNull(swp)
  /\ IF IsNull(rule) \/ ~Val(rule).enable_scheduled_send
     THEN /\ resp' = Request("send_pending_worklogs", "done", "", 0, <<>>, 200)
          /\ UNCHANGED swp
     ELSE \E qs \in Listings(db, PendingAt(db, now)) :
            /\ resp' = Request("send_pending_worklogs", "start", "", 0, <<>>, 0)
            /\ swp' = Some([todo |-> [k \in DOMAIN qs |->
                                        [id |-> qs[k], author |-> db.worklogs[qs[k]].author]],
                            qs |-> qs, sent |-> 0, failed |-> 0])
  /\ UNCHANGED <<now, db, std, cond, rule, inv, outbox, upd, chg>>

\* one turn of the loop of send_pending_worklogs, or its end when no row is left
SweepStep(transport_ok) ==
  /\ ~IsNull(swp)
  /\ IF Val(swp).todo = <<>>
     THEN /\ swp' = None
          /\ resp' = Request("send_pending_worklogs", "done", "", 0,
                             <<Val(swp).sent, Val(swp).failed>>, 200)
          /\ UNCHANGED <<db, outbox>>
     ELSE \E wl \in {Head(Val(swp).todo)} :
          \E recipient \in {send_worklog_docx_email(rule, wl.author, FALSE, transport_ok)} :
            /\ resp' = Request("send_pending_worklogs", "loop", "", wl.id, <<>>, 0)
            /\ IF IsNull(recipient)
               THEN /\ swp' = Some([Val(swp) EXCEPT !.todo = Tail(@), !.failed = @ + 1])
                    /\ UNCHANGED <<db, outbox>>
               ELSE /\ outbox' = Append(outbox, MailEvent("delivered", wl.id, "sweep"))
                    /\ db' = mark_email_sent(db, wl.id, now)
                    /\ swp' = IF wl.id \in Ids(db.worklogs)
                              THEN Some([Val(swp) EXCEPT !.todo = Tail(@), !.sent = @ + 1])
                              ELSE Some([Val(swp) EXCEPT !.todo = Tail(@), !.failed = @ + 1])
  /\ UNCHANGED <<now, std, cond, rule, inv, upd, chg>>

\* ---------------------------------------------------------- inventory items
Digits == <<"0", "1", "2", "3", "4", "5", "6", "7", "8", "9">>

\* the order in which the database compares characters
Collation == Digits \o Uppers \o Lowers

Upper(s) == [i \in 1..Len(s) |-> ToUpper(s[i])]
Lower(s) == [i \in 1..Len(s) |-> ToLower(s[i])]
IExact(a, b) == Lower(a) = Lower(b)

Rank == [c \in {Collation[i] : i \in 1..Len(Collation)} |->
           CHOOSE i \in 1..Len(Collation) : Collation[i] = c]

TextKey(s) == [i \in 1..Len(s) |-> IF s[i] \in DOMAIN Rank THEN Rank[s[i]] ELSE 0]

\* comparison of two column values, component by component
RECURSIVE KeyLess(_, _)
KeyLess(a, b) == IF b = <<>> THEN FALSE
                 ELSE IF a = <<>> THEN TRUE
                 ELSE IF Head(a) # Head(b) THEN Head(a) < Head(b)
                 ELSE KeyLess(Tail(a), Tail(b))

\* int(text): the number written by a sequence of digits, an error otherwise
RECURSIVE IntOf(_)
IntOf(s) == IF s = <<>> THEN 0
            ELSE IntOf(SubSeq(s, 1, Len(s) - 1)) * 10 + IndexIn(s[Len(s)], Digits) - 1
ParseInt(s) == IF s # <<>> /\ \A i \in 1..Len(s) : IndexIn(s[i], Digits) > 0
               THEN Some(IntOf(s))
               ELSE None

UserGroups == [u \in Accounts |-> IF u = "u1" THEN {"editor"} ELSE {}]
user_can_edit(u) == UserGroups[u] \cap {"editor", "purchase_manager"} # {}

\* unit codes and the texts the import left in InventoryItem.units
ROLL == <<"R", "O", "L", "L">>
ROLLS == <<"R", "O", "L", "L", "S">>
M == <<"M">>
METER == <<"M", "E", "T", "E", "R">>
METERS == <<"M", "E", "T", "E", "R", "S">>
DEFAULT_UNITS == {M, ROLL}

\* the synonyms table of the unit filter: synonyms.get(code_up, [code_up])
synonyms(code_up) == IF code_up = ROLL THEN {ROLL, ROLLS}
                     ELSE IF code_up = M THEN {M, METER, METERS}
                     ELSE {code_up}

NewItem(data) ==
  [rack |-> data.rack,
   shelf |-> Upper(Strip(data.shelf)),
   box |-> Strip(data.box),
   name |-> Strip(data.name),
   part_description |-> Strip(data.part_description),
   unit |-> Some(data.unit_id),
   units |-> data.unit_id,
   quantity_in_stock |-> Some(data.quantity_in_stock),
   reorder_level |-> data.reorder_level,
   discontinued |-> data.discontinued]

\* InventoryItem.save: a shelf that is not empty is stored in upper case
ItemSave(item) ==
  IF item.shelf # <<>> THEN [item EXCEPT !.shelf = Upper(item.shelf)] ELSE item

\* the columns the database accepts: shelf is CharField(max_length=1)
ItemStorable(item) == Len(item.shelf) <= 1

\* InventoryItem.for_reorder
for_reorder(item) ==
  IF /\ item.quantity_in_stock # None
     /\ item.reorder_level # None
     /\ ~item.discontinued
  THEN Val(item.quantity_in_stock) <= Val(item.reorder_level)
  ELSE FALSE

\* a <= b in SQL: unknown (None) when either side is NULL
SqlLte(a, b) == IF a = None \/ b = None THEN None ELSE Some(Val(a) <= Val(b))

for_reorder_ann_by_stock(item) ==
  IF SqlLte(item.quantity_in_stock, item.reorder_level) = Some(TRUE) THEN 1 ELSE 0

\* the annotation for_reorder_ann: the first When whose condition is true
for_reorder_ann(item) ==
  IF item.discontinued THEN 0
  ELSE IF item.reorder_level = None THEN 0
  ELSE IF SqlLte(item.quantity_in_stock, item.reorder_level) = Some(TRUE) THEN 1
  ELSE 0

\* the annotations and columns an ORDER BY term reads
FieldValue(item, field) ==
  CASE field = "rack" -> <<item.rack>>
    [] field = "shelf" -> TextKey(item.shelf)
    [] field = "box" -> TextKey(item.box)
    [] field = "name" -> TextKey(item.name)
    [] field = "name_lower" -> TextKey(Lower(item.name))
    [] field = "name_digit_flag" ->
         <<IF item.name # <<>> /\ IndexIn(item.name[1], Digits) > 0 THEN 0 ELSE 1>>
    [] field = "desc_present" -> <<IF item.part_description = <<>> THEN 0 ELSE 1>>
    [] field = "quantity_in_stock" ->
         IF item.quantity_in_stock = None THEN <<1>> ELSE <<0, Val(item.quantity_in_stock)>>
    [] field = "for_reorder_ann" -> <<for_reorder_ann(item)>>

Asc(field) == [field |-> field, desc |-> FALSE]
Term(field, sort_dir) == [field |-> field, desc |-> sort_dir = "desc"]

get_order_by_args_plain_name(sort_field, sort_dir) ==
  IF sort_field = "name"
  THEN <<Term("name_digit_flag", sort_dir), Term("name_lower", sort_dir),
         Asc("rack"), Asc("shelf"), Asc("box")>>
  ELSE <<Term("rack", sort_dir), Asc("shelf"), Asc("box"), Asc("name")>>

get_order_by_args(sort_field, sort_dir) ==
  CASE sort_field = "name" ->
         <<Asc("name_digit_flag"), Term("name_lower", sort_dir),
           Asc("rack"), Asc("shelf"), Asc("box")>>
    [] sort_field = "shelf" ->
         <<Term("shelf", sort_dir), Asc("rack"), Asc("box"), Asc("name")>>
    [] sort_field = "rack" ->
         <<Term("rack", sort_dir), Asc("shelf"), Asc("box"), Asc("name")>>
    [] sort_field = "part_description" ->
         <<[field |-> "desc_present", desc |-> sort_dir # "desc"], Asc("name")>>
    [] sort_field = "quantity_in_stock" ->
         <<Term("quantity_in_stock", sort_dir), Asc("rack"), Asc("shelf"), Asc("box")>>
    [] sort_field = "for_reorder" ->
         <<[field |-> "for_reorder_ann", desc |-> sort_dir = "asc"],
           Asc("rack"), Asc("shelf"), Asc("box")>>
    [] OTHER -> <<Asc("rack"), Asc("shelf"), Asc("box"), Asc("name")>>

allowed_sorts ==
  {"rack", "shelf", "name", "part_description", "quantity_in_stock", "for_reorder"}

\* home_view: an unknown sort key is rack, an unknown direction is asc
home_order_by_args(sort, dir) ==
  get_order_by_args(IF sort \in allowed_sorts THEN sort ELSE "rack",
                    IF dir \in {"asc", "desc"} THEN dir ELSE "asc")

\* ORDER BY: row a comes strictly before row b
RECURSIVE Precedes(_, _, _)
Precedes(a, b, args) ==
  IF args = <<>> THEN FALSE
  ELSE IF FieldValue(a, Head(args).field) = FieldValue(b, Head(args).field)
       THEN Precedes(a, b, Tail(args))
       ELSE IF Head(args).desc
            THEN KeyLess(FieldValue(b, Head(args).field), FieldValue(a, Head(args).field))
            ELSE KeyLess(FieldValue(a, Head(args).field), FieldValue(b, Head(args).field))

\* the lists a query may return: rows that ORDER BY leaves tied come in any order
OrderedLists(items, ids, args) ==
  {s \in [1..Cardinality(ids) -> ids] :
     /\ \A i, j \in DOMAIN s : s[i] = s[j] => i = j
     /\ \A i, j \in DOMAIN s : i < j => ~Precedes(items[s[j]], items[s[i]], args)}

\* the rack and unit filters of home_view and _build_filtered_inventory_queryset
RackFilter(items, ids, rack_filter) ==
  IF rack_filter = <<>> \/ ParseInt(rack_filter) = None
  THEN [ids |-> ids, applied |-> FALSE]
  ELSE [ids |-> {i \in ids : items[i].rack = Val(ParseInt(rack_filter))}, applied |-> TRUE]

UnitFilter(items, units, ids, unit_filter) ==
  IF Strip(unit_filter) = <<>>
       \/ ~\E u \in units : IExact(u, Upper(Strip(unit_filter)))
  THEN [ids |-> ids, applied |-> FALSE]
  ELSE [ids |-> {i \in ids :
                   \/ /\ items[i].unit # None
                      /\ IExact(Val(items[i].unit), Upper(Strip(unit_filter)))
                   \/ items[i].units \in synonyms(Upper(Strip(unit_filter)))
                   \/ IExact(items[i].units, Upper(Strip(unit_filter)))},
        applied |-> TRUE]

ReorderFilter(items, ids, reorder_filter) ==
  IF reorder_filter = "yes"
  THEN [ids |-> {i \in ids : for_reorder_ann(items[i]) = 1}, applied |-> TRUE]
  ELSE IF reorder_filter = "no"
       THEN [ids |-> {i \in ids : for_reorder_ann(items[i]) = 0}, applied |-> TRUE]
       ELSE [ids |-> ids, applied |-> FALSE]

FilterItems(v, params) ==
  Only({Only({Only({[ids |-> f.ids, applied |-> r.applied \/ u.applied \/ f.applied] :
                      f \in {ReorderFilter(v.items, u.ids, params.reorder_filter)}}) :
                u \in {UnitFilter(v.items, v.units, r.ids, params.unit_filter)}}) :
          r \in {RackFilter(v.items, Ids(v.items), params.rack_filter)}})

\* the page sizes of home_view; None stands for "all"
PageSizes == {50, 100, 200, 500}
All == <<"a", "l", "l">>

\* home_view: the page size in force and the value kept in the session
home_page_size(page_size_param, stored) ==
  IF page_size_param = None
  THEN [page_size |-> stored, stored |-> stored]
  ELSE IF Val(page_size_param) = All
       THEN [page_size |-> None, stored |-> None]
       ELSE IF /\ ParseInt(Val(page_size_param)) # None
               /\ Val(ParseInt(Val(page_size_param))) \in PageSizes
            THEN [page_size |-> ParseInt(Val(page_size_param)),
                  stored |-> ParseInt(Val(page_size_param))]
            ELSE [page_size |-> Some(100), stored |-> stored]

\* Paginator: the number of pages and the page a request gets
NumPages(n, size) == IF n = 0 THEN 1 ELSE (n + size - 1) \div size

PageNumber(page, num_pages) ==
  IF page = None \/ ParseInt(Val(page)) = None THEN 1
  ELSE IF Val(ParseInt(Val(page))) < 1 \/ Val(ParseInt(Val(page))) > num_pages
       THEN num_pages
       ELSE Val(ParseInt(Val(page)))

PageRows(order, size, number) ==
  SubSeq(order, (number - 1) * size + 1,
         IF number * size < Len(order) THEN number * size ELSE Len(order))

Paginate(order, page_size, page) ==
  IF page_size = None
  THEN [number |-> 1, items |-> order]
  ELSE Only({[number |-> n, items |-> PageRows(order, Val(page_size), n)] :
               n \in {PageNumber(page, NumPages(Len(order), Val(page_size)))}})

\* _compute_page_for_item: the page size it divides by (None: no division)
page_size_int(page_size_raw) ==
  IF page_size_raw = Some(All) THEN None
  ELSE IF page_size_raw = None \/ Val(page_size_raw) = <<>> THEN Some(50)
  ELSE IF ParseInt(Val(page_size_raw)) = None THEN Some(50)
  ELSE ParseInt(Val(page_size_raw))

compute_page_for_item(ordered_ids, item_id, page_size_raw) ==
  IF IndexIn(item_id, ordered_ids) = 0 THEN 1
  ELSE IF page_size_int(page_size_raw) = None \/ Val(page_size_int(page_size_raw)) = 0
       THEN 1
       ELSE (IndexIn(item_id, ordered_ids) - 1) \div Val(page_size_int(page_size_raw)) + 1

\* ---------------------------------------------------------------- inventory
\* the accounts: e-mail and password of the user row, and the preferred name
\* of the user's profile row (None: the user has no profile row)
Sesame == <<"s", "e", "s", "a", "m", "e">>

AccountTable ==
  [u \in Accounts |->
     [email |-> <<>>, password |-> Sesame,
      preferred_name |-> IF u = "u1" THEN Some(<<>>) ELSE None]]

EmptyInventory ==
  [settings |-> {}, settings_seq |-> 0, lookup |-> [r \in Requests |-> "idle"],
   items |-> <<>>, item_seq |-> 0, units |-> DEFAULT_UNITS,
   session |-> [u \in Accounts |-> Some(100)],
   accounts |-> AccountTable,
   meta |-> <<>>, meta_held |-> [r \in Requests |-> None]]

SettingsViews == {"home_view", "changelist_view"}

\* the lookup of the InventorySettings row by home_view (order_by("-id").first())
\* and by the admin change list (qs.exists()): the row is there, or the request
\* goes on to create it
SettingsLookup(r, view) ==
  /\ inv.lookup[r] = "idle"
  /\ IF inv.settings # {}
     THEN /\ resp' = Request(view, "done", r, CHOOSE i \in inv.settings :
                                                  \A j \in inv.settings : j <= i,
                             <<>>, 200)
          /\ UNCHANGED inv
     ELSE /\ resp' = Request(view, "lookup", r, 0, <<>>, 0)
          /\ inv' = [inv EXCEPT !.lookup[r] = view]
  /\ UNCHANGED <<now, db, std, cond, rule, outbox, upd, chg, swp>>

\* InventorySettings.objects.create() of a request that found no row
SettingsCreate(r) ==
  /\ inv.lookup[r] # "idle"
  /\ resp' = Request(inv.lookup[r], "done", r, inv.settings_seq + 1, <<>>, 200)
  /\ inv' = [inv EXCEPT !.lookup[r] = "idle",
                        !.settings_seq = @ + 1,
                        !.settings = @ \cup {inv.settings_seq + 1}]
  /\ UNCHANGED <<now, db, std, cond, rule, outbox, upd, chg, swp>>

\* the admin deletes a settings row (ModelAdmin delete view)
SettingsDelete(pk) ==
  /\ pk \in inv.settings
  /\ resp' = Request("delete_view", "done", "", pk, <<>>, 200)
  /\ inv' = [inv EXCEPT !.settings = @ \ {pk}]
  /\ UNCHANGED <<now, db, std, cond, rule, outbox, upd, chg, swp>>

\* ------------------------------------------------------ inventory requests
\* params.get("sort") or "rack", params.get("dir") or "asc"
OrDefault(value, default) == IF value = "" THEN default ELSE value

create_item(u, data, params) ==
  /\ IF ~user_can_edit(u)
     THEN /\ resp' = Request("create_item", "done", u, 0, <<"denied">>, 403)
          /\ UNCHANGED inv
     ELSE IF data.shelf = <<>> \/ data.box = <<>> \/ data.unit_id \notin inv.units
     THEN /\ resp' = Request("create_item", "done", u, 0, <<"invalid">>, 400)
          /\ UNCHANGED inv
     ELSE IF ~ItemStorable(ItemSave(NewItem(data)))
     THEN /\ resp' = Request("create_item", "done", u, 0, <<"failed">>, 500)
          /\ UNCHANGED inv
     ELSE \E items \in {Put(inv.items, inv.item_seq + 1, ItemSave(NewItem(data)))} :
          \E ordered_ids \in OrderedLists(items, Ids(items),
                                          get_order_by_args(OrDefault(params.sort, "rack"),
                                                            OrDefault(params.dir, "asc"))) :
            /\ inv' = [inv EXCEPT !.items = items, !.item_seq = @ + 1]
            /\ resp' = Request("create_item", "done", u, inv.item_seq + 1,
                               [params |-> params,
                                page |-> compute_page_for_item(ordered_ids, inv.item_seq + 1,
                                                               params.page_size)],
                               200)
  /\ UNCHANGED <<now, db, std, cond, rule, outbox, upd, chg, swp>>

move_location(u, item_id, rack, shelf, box, params) ==
  /\ IF ~user_can_edit(u)
     THEN /\ resp' = Request("move_location", "done", u, item_id, <<"denied">>, 403)
          /\ UNCHANGED inv
     ELSE IF \/ rack < 1 \/ rack > 20
             \/ Len(Upper(Strip(shelf))) # 1 \/ ~IsLetter(Upper(Strip(shelf))[1])
             \/ Strip(box) = <<>>
     THEN /\ resp' = Request("move_location", "done", u, item_id, <<"invalid">>, 400)
          /\ UNCHANGED inv
     ELSE IF item_id \notin Ids(inv.items)
     THEN /\ resp' = Request("move_location", "done", u, item_id, <<"missing">>, 404)
          /\ UNCHANGED inv
     ELSE \E moved \in {[inv EXCEPT !.items[item_id].rack = rack,
                                    !.items[item_id].shelf = Upper(Strip(shelf)),
                                    !.items[item_id].box = Strip(box)]} :
          \E queryset \in {FilterItems(moved, params)} :
          \E ordered_ids \in OrderedLists(moved.items, queryset.ids,
                                          get_order_by_args(OrDefault(params.sort, "rack"),
                                                            OrDefault(params.dir, "asc"))) :
            /\ inv' = moved
            /\ resp' = Request("move_location", "done", u, item_id,
                               [params |-> params,
                                page |-> compute_page_for_item(ordered_ids, item_id,
                                                               params.page_size)],
                               200)
  /\ UNCHANGED <<now, db, std, cond, rule, outbox, upd, chg, swp>>

\* home_view: the page size in force, the session value and the lists the query
\* may return
HomeLists(v, u, params) ==
  Only({Only({[page_size |-> IF queryset.applied THEN None ELSE size.page_size,
               stored |-> size.stored,
               lists |-> OrderedLists(v.items, queryset.ids,
                                      home_order_by_args(OrDefault(params.sort, "rack"),
                                                         OrDefault(params.dir, "asc")))] :
                queryset \in {FilterItems(v, params)}}) :
          size \in {home_page_size(params.page_size, v.session[u])}})

\* home_view: the page of the list a logged-in user is shown
home_view(u, params) ==
  /\ \E h \in {HomeLists(inv, u, params)} :
     \E ordered_ids \in h.lists :
     \E page \in {Paginate(ordered_ids, h.page_size, params.page)} :
       /\ inv' = [inv EXCEPT !.session[u] = h.stored]
       /\ resp' = Request("home_view", "done", u, 0,
                          [params |-> params, page_size |-> h.page_size,
                           page |-> page.number, items |-> page.items],
                          200)
  /\ UNCHANGED <<now, db, std, cond, rule, outbox, upd, chg, swp>>

\* update_field: the fields edited in place (of allowed_fields, those modelled)
allowed_fields ==
  {"name", "part_description", "quantity_in_stock", "reorder_level", "box", "shelf",
   "discontinued"}

TrueTexts == {<<"1">>, <<"t", "r", "u", "e">>, <<"t">>, <<"y", "e", "s">>, <<"y">>, <<"o", "n">>}
FalseTexts ==
  {<<"0">>, <<"f", "a", "l", "s", "e">>, <<"f">>, <<"n", "o">>, <<"n">>, <<"o", "f", "f">>, <<>>}

\* update_field: the value converted for the field; None when the conversion
\* is refused. The value of the request is None when the parameter is missing.
value_converted(field, value) ==
  IF field \in {"quantity_in_stock", "reorder_level"}
  THEN IF value = None \/ ParseInt(Val(value)) = None
       THEN None
       ELSE Some(ParseInt(Val(value)))
  ELSE IF field = "discontinued"
  THEN Only({IF text \in TrueTexts THEN Some(TRUE)
             ELSE IF text \in FalseTexts THEN Some(FALSE)
             ELSE None :
               text \in {Lower(Strip(IF value = None THEN <<>> ELSE Val(value)))}})
  ELSE value

update_field(u, item_id, field, value) ==
  /\ IF ~user_can_edit(u)
     THEN /\ resp' = Request("update_field", "done", u, item_id, <<"denied">>, 403)
          /\ UNCHANGED inv
     ELSE IF item_id \notin Ids(inv.items)
     THEN /\ resp' = Request("update_field", "done", u, item_id, <<"missing">>, 404)
          /\ UNCHANGED inv
     ELSE IF field \notin allowed_fields
     THEN /\ resp' = Request("update_field", "done", u, item_id, <<"invalid">>, 400)
          /\ UNCHANGED inv
     ELSE \E converted \in {value_converted(field, value)} :
          IF converted = None
          THEN /\ resp' = Request("update_field", "done", u, item_id,
                                  <<IF field \in {"quantity_in_stock", "reorder_level",
                                                  "discontinued"}
                                    THEN "invalid" ELSE "failed">>,
                                  IF field \in {"quantity_in_stock", "reorder_level",
                                                "discontinued"}
                                  THEN 400 ELSE 500)
               /\ UNCHANGED inv
          ELSE \E item \in {ItemSave([inv.items[item_id] EXCEPT ![field] = Val(converted)])} :
               IF ~ItemStorable(item)
               THEN /\ resp' = Request("update_field", "done", u, item_id, <<"failed">>, 500)
                    /\ UNCHANGED inv
               ELSE /\ resp' = Request("update_field", "done", u, item_id,
                                       [field |-> field, value |-> converted], 200)
                    /\ inv' = [inv EXCEPT !.items[item_id] = item]
  /\ UNCHANGED <<now, db, std, cond, rule, outbox, upd, chg, swp>>

\* str.split("-")
RECURSIVE Split(_)
Split(s) ==
  IF IndexIn("-", s) = 0 THEN <<s>>
  ELSE <<SubSeq(s, 1, IndexIn("-", s) - 1)>> \o Split(SubSeq(s, IndexIn("-", s) + 1, Len(s)))

\* parse_loc of the import: rack, shelf and box of a Localization cell; None
\* when the cell is empty
parse_loc(loc_value) ==
  IF Strip(loc_value) = <<>> THEN None
  ELSE Only({Some([rack |-> ParseInt(parts[1]),
                   shelf |-> Upper(Strip(IF Len(parts) > 1 THEN parts[2] ELSE <<"0">>)),
                   box |-> Strip(IF Len(parts) > 2
                                 THEN Join(SubSeq(parts, 3, Len(parts)))
                                 ELSE <<"0">>)]) :
               parts \in {Split(Strip(loc_value))}})

\* the import of a file of one row, started from the admin page
import_inventory_from_excel(row) ==
  /\ \E loc \in {parse_loc(row.localization)} :
       IF loc = None \/ Val(loc).rack = None
       THEN /\ resp' = Request("import", "done", "", 0, <<"skipped">>, 200)
            /\ UNCHANGED inv
       ELSE \E item \in {ItemSave([rack |-> Val(Val(loc).rack),
                                    shelf |-> Val(loc).shelf,
                                    box |-> Val(loc).box,
                                    name |-> row.name,
                                    part_description |-> <<>>,
                                    unit |-> None,
                                    units |-> <<>>,
                                    quantity_in_stock |-> row.quantity_in_stock,
                                    reorder_level |-> row.reorder_level,
                                    discontinued |-> row.discontinued])} :
            IF ~ItemStorable(item)
            THEN /\ resp' = Request("import", "done", "", 0, <<"failed">>, 500)
                 /\ UNCHANGED inv
            ELSE /\ resp' = Request("import", "done", "", inv.item_seq + 1, <<"created">>, 200)
                 /\ inv' = [inv EXCEPT !.items = Put(@, inv.item_seq + 1, item),
                                       !.item_seq = @ + 1]
  /\ UNCHANGED <<now, db, std, cond, rule, outbox, upd, chg, swp>>

\* (mutant) any password is accepted
authenticate_any(accounts, u, password) == TRUE

\* authenticate(username, password): the password is the account's
authenticate(accounts, u, password) == accounts[u].password = password

\* item_id 0: the request carries no item_id
delete_item(u, item_id, password) ==
  /\ IF ~user_can_edit(u)
     THEN /\ resp' = Request("delete_item", "done", u, item_id,
                             [password |-> password, error |-> "denied"], 403)
          /\ UNCHANGED inv
     ELSE IF item_id = 0
     THEN /\ resp' = Request("delete_item", "done", u, item_id,
                             [password |-> password, error |-> "item_id"], 400)
          /\ UNCHANGED inv
     ELSE IF ~authenticate(inv.accounts, u, password)
     THEN /\ resp' = Request("delete_item", "done", u, item_id,
                             [password |-> password, error |-> "password"], 403)
          /\ UNCHANGED inv
     ELSE IF item_id \notin Ids(inv.items)
     THEN /\ resp' = Request("delete_item", "done", u, item_id,
                             [password |-> password, error |-> "missing"], 404)
          /\ UNCHANGED inv
     ELSE /\ resp' = Request("delete_item", "done", u, item_id,
                             [password |-> password, error |-> ""], 200)
          /\ inv' = [inv EXCEPT !.items = Drop(@, {item_id})]
  /\ UNCHANGED <<now, db, std, cond, rule, outbox, upd, chg, swp>>

\* validate_email: one "@" with a name before it and a dotted domain after it
validate_email(email) ==
  \E i \in 2..(Len(email) - 1) :
    /\ email[i] = "@"
    /\ \A j \in 1..Len(email) : email[j] = "@" => j = i
    /\ \E k \in (i + 2)..(Len(email) - 1) : email[k] = "."

\* user_profile (POST): the rows it has written when it answers, and the answer
ProfileSaved(account, email, preferred) ==
  [account EXCEPT !.email = email,
                  !.preferred_name = IF @ = None THEN None ELSE Some(preferred)]

user_profile(u, email, preferred_name, old_password, new_password, new_password_confirm) ==
  /\ IF Strip(email) # <<>> /\ ~validate_email(Strip(email))
     THEN /\ resp' = Request("user_profile", "done", u, 0, <<"email">>, 400)
          /\ UNCHANGED inv
     ELSE \E saved \in {ProfileSaved(inv.accounts[u], Strip(email), Strip(preferred_name))} :
          IF Strip(new_password) = <<>>
          THEN /\ resp' = Request("user_profile", "done", u, 0, <<>>, 200)
               /\ inv' = [inv EXCEPT !.accounts[u] = saved]
          ELSE IF \/ Strip(old_password) = <<>>
                  \/ inv.accounts[u].password # Strip(old_password)
                  \/ Strip(new_password) # Strip(new_password_confirm)
                  \/ Len(Strip(new_password)) < 6
          THEN /\ resp' = Request("user_profile", "done", u, 0, <<"password">>, 400)
               /\ inv' = [inv EXCEPT !.accounts[u] = saved]
          ELSE /\ resp' = Request("user_profile", "done", u, 0, <<>>, 200)
               /\ inv' = [inv EXCEPT !.accounts[u] = [saved EXCEPT !.password =
                                                                  Strip(new_password)]]
  /\ UNCHANGED <<now, db, std, cond, rule, outbox, upd, chg, swp>>

\* InventoryUserMeta: the rows (the primary key is the position), and for each
\* request in flight the row object it holds between get_or_create and save
FAVORITE_COLOR_CHOICES ==
  {<<"N", "O", "N", "E">>, <<"R", "E", "D">>, <<"G", "R", "E", "E", "N">>,
   <<"Y", "E", "L", "L", "O", "W">>, <<"B", "L", "U", "E">>}

MetaOf(meta, u, item) == {i \in 1..Len(meta) : meta[i].user = u /\ meta[i].item = item}

\* get_or_create(user=, item=, defaults=): the row of the pair, inserted with
\* the defaults when there is none (unique_together ("user", "item"))
get_or_create(meta, u, item, favorite_color, note) ==
  IF MetaOf(meta, u, item) # {}
  THEN [created |-> FALSE, pk |-> Only(MetaOf(meta, u, item)), meta |-> meta]
  ELSE [created |-> TRUE, pk |-> Len(meta) + 1,
        meta |-> Append(meta, [user |-> u, item |-> item,
                               favorite_color |-> favorite_color, note |-> note])]

\* the two views from get_or_create on: answered at once when the row was
\* created, else the row object is changed and is then to be saved
MetaGet(r, op, u, item_id, value, got, changed) ==
  IF got.created
  THEN /\ resp' = Request(op, "done", u, item_id, value, 200)
       /\ inv' = [inv EXCEPT !.meta = got.meta]
  ELSE /\ resp' = Request(op, "get", u, item_id, value, 0)
       /\ inv' = [inv EXCEPT !.meta_held[r] =
                               Some([op |-> op, pk |-> got.pk, row |-> changed,
                                     value |-> value])]

\* update_favorite up to meta.save(); item_id 0: the request carries no item_id
update_favorite(r, u, item_id, color) ==
  /\ inv.meta_held[r] = None
  /\ \E c \in {Upper(IF color = <<>> THEN <<"N", "O", "N", "E">> ELSE color)} :
       IF item_id = 0 \/ c \notin FAVORITE_COLOR_CHOICES
       THEN /\ resp' = Request("update_favorite", "done", u, item_id, c, 400)
            /\ UNCHANGED inv
       ELSE IF item_id \notin Ids(inv.items)
       THEN /\ resp' = Request("update_favorite", "done", u, item_id, c, 404)
            /\ UNCHANGED inv
       ELSE \E got \in {get_or_create(inv.meta, u, item_id, c, <<>>)} :
              MetaGet(r, "update_favorite", u, item_id, c, got,
                      [inv.meta[got.pk] EXCEPT !.favorite_color = c])
  /\ UNCHANGED <<now, db, std, cond, rule, outbox, upd, chg, swp>>

\* update_note up to meta.save()
update_note(r, u, item_id, note) ==
  /\ inv.meta_held[r] = None
  /\ IF item_id = 0
     THEN /\ resp' = Request("update_note", "done", u, item_id, note, 400)
          /\ UNCHANGED inv
     ELSE IF item_id \notin Ids(inv.items)
     THEN /\ resp' = Request("update_note", "done", u, item_id, note, 404)
          /\ UNCHANGED inv
     ELSE \E got \in {get_or_create(inv.meta, u, item_id, <<"N", "O", "N", "E">>, note)} :
            MetaGet(r, "update_note", u, item_id, note, got,
                    [inv.meta[got.pk] EXCEPT !.note = note])
  /\ UNCHANGED <<now, db, std, cond, rule, outbox, upd, chg, swp>>

\* meta.save(): every column of the row is written from the object held
MetaSave(r) ==
  /\ inv.meta_held[r] # None
  /\ \E held \in {Val(inv.meta_held[r])} :
       /\ resp' = Request(held.op, "done", held.row.user, held.row.item, held.value, 200)
       /\ inv' = [inv EXCEPT !.meta_held[r] = None, !.meta[held.pk] = held.row]
  /\ UNCHANGED <<now, db, std, cond, rule, outbox, upd, chg, swp>>

\* the admin adds a unit (Unit.code is unique)
unit_add(code) ==
  /\ code \notin inv.units
  /\ inv' = [inv EXCEPT !.units = @ \cup {code}]
  /\ resp' = Request("unit_add", "done", "", 0, <<>>, 200)
  /\ UNCHANGED <<now, db, std, cond, rule, outbox, upd, chg, swp>>

\* ------------------------------------------------- numeric page window
Max(a, b) == IF a > b THEN a ELSE b
Min(a, b) == IF a < b THEN a ELSE b
FromTo(start, end) == [i \in 1..(end - start + 1) |-> start + i - 1]

window_size == 5

Window(start, end) ==
  [start |-> start, end |-> end]

\* start and end before the adjustment
window_around(current_page_number, num_pages) ==
  Window(Max(current_page_number - 2, 2), Min(current_page_number + 2, num_pages - 1))

window_unadjusted(w, num_pages) == w

\* "Adjust window to always have window_size if possible"
window_adjusted(w, num_pages) ==
  IF w.end - w.start + 1 < window_size
  THEN IF w.start = 2
       THEN Window(w.start, Min(w.start + window_size - 1, num_pages - 1))
       ELSE IF w.end = num_pages - 1
            THEN Window(Max(w.end - window_size + 1, 2), w.end)
            ELSE w
  ELSE w

\* home_view: the page numbers shown and the two ellipsis flags
page_numbers(current_page_number, num_pages) ==
  IF num_pages <= 7
  THEN [page_numbers |-> FromTo(1, num_pages),
        show_first_ellipsis |-> FALSE, show_last_ellipsis |-> FALSE]
  ELSE Only({[page_numbers |-> FromTo(w.start, w.end),
              show_first_ellipsis |-> w.start > 2,
              show_last_ellipsis |-> w.end < num_pages - 1] :
               w \in {window_adjusted(window_around(current_page_number, num_pages),
                                      num_pages)}})

\* home_view showing page current_page_number of a list of num_pages pages
PageWindow(current_page_number, num_pages) ==
  /\ resp' = Request("page_numbers", "done", "", 0,
                     [current_page_number |-> current_page_number,
                      num_pages |-> num_pages,
                      window |-> page_numbers(current_page_number, num_pages)],
                     200)
  /\ UNCHANGED <<now, db, std, cond, rule, outbox, upd, chg, swp, inv>>

\* ------------------------------------------------------ the specifications
Dates == {0, 1}
HourLimits == {0, 12}

EditConditions ==
  {None} \cup {Some([only_last_wl_editable |-> o, editable_time_since_created |-> h]) :
                 o \in BOOLEAN, h \in HourLimits}

EntryRows(states, times) == [state : states, job : {"job"}, time_hours : times]

SeqsUpTo(S, n) == UNION {[1..k -> S] : k \in 0..n}

DueInputs == {None} \cup {Some(x) : x \in Dates}

InitStore ==
  /\ now = 0
  /\ db = EmptyDb
  /\ outbox = <<>>
  /\ upd = None
  /\ chg = [r \in Requests |-> None]
  /\ swp = None
  /\ resp = Request("init", "done", "", 0, <<>>, 200)
  /\ inv = EmptyInventory

\* The work-log aggregate: creation, update with entry replacement, deletion.
Init ==
  /\ InitStore
  /\ std = None
  /\ rule = None
  /\ cond = None

AggregatePayloads == SeqsUpTo(EntryRows({"open"}, {25, TimeHoursLimit}), MaxEntries)

Next ==
  \/ \E u \in Users, due \in DueInputs, payload \in AggregatePayloads :
       /\ db.wl_seq < MaxWorkLogs
       /\ db.entry_seq + Len(payload) <= MaxEntryIds
       /\ create_work_log(u, due, None, None, "", payload, "email_now", TRUE)
  \/ \E u \in Users, pk \in 1..db.wl_seq : UpdateGet(u, pk)
  \/ \E due \in DueInputs, payload \in AggregatePayloads :
       /\ db.entry_seq + Len(payload) <= MaxEntryIds
       /\ UpdateCommit(due, None, None, "", payload, "email_now", TRUE)
  \/ \E u \in Users, pk \in 1..db.wl_seq : delete_work_log(u, pk)

Spec == Init /\ [][Next]_vars

\* The edit conditions: two authors, a clock, every EditCondition row.
EditInit ==
  /\ InitStore
  /\ std = None
  /\ rule = None
  /\ cond \in EditConditions

OneEntry == <<[state |-> "open", job |-> "job", time_hours |-> 25]>>

EditNext ==
  \/ Tick
  \/ \E u \in Users, d \in Dates :
       /\ db.wl_seq < MaxWorkLogs
       /\ db.entry_seq < MaxEntryIds
       /\ create_work_log(u, Some(d), None, None, "", OneEntry, "email_now", TRUE)
  \/ \E u \in Users, pk \in 1..db.wl_seq : UpdateGet(u, pk)
  \/ /\ db.entry_seq < MaxEntryIds
     /\ UpdateCommit(Some(0), None, None, "", OneEntry, "email_now", TRUE)

EditSpec == EditInit /\ [][EditNext]_vars

\* The entry state machine: one author's work logs, two state-change requests
\* that may overlap, and updates that replace the entries.
StateInit ==
  /\ InitStore
  /\ std = None
  /\ rule = None
  /\ cond = None

StatePayloads == SeqsUpTo(EntryRows({"open"}, {25}), MaxEntries) \ {<<>>}

\* who sends each of the two requests
RequestUser == [r \in Requests |-> IF r = "r1" THEN "u1" ELSE "u2"]

StateNext ==
  \/ \E payload \in StatePayloads :
       /\ Ids(db.worklogs) = {}
       /\ db.wl_seq < MaxWorkLogs
       /\ db.entry_seq + Len(payload) <= MaxEntryIds
       /\ create_work_log("u1", Some(0), None, None, "", payload, "email_now", TRUE)
  \/ \E r \in Requests, pk \in 1..db.entry_seq, new \in JobStates \cup {"?"} :
       ChangeStateGet(r, RequestUser[r], pk, new)
  \/ \E r \in Requests :
       /\ Len(db.history) < MaxHistory
       /\ ChangeStateWrite(r)
  \/ \E pk \in 1..db.wl_seq : UpdateGet("u1", pk)
  \/ /\ db.entry_seq < MaxEntryIds
     /\ UpdateCommit(Some(0), None, None, "", OneEntry, "email_now", TRUE)

StateSpec == StateInit /\ [][StateNext]_vars

\* The e-mail of one work log: scheduling at creation and update, the
\* immediate send, the sweep, under every rule drawn at the start. The rule
\* lists nobody or the first user; either user may be the author.
UserLists == {{}, {"u1"}}

EmailRules ==
  {None} \cup {Some([send_new |-> n, send_edit |-> e, enable_scheduled_send |-> s,
                     recipient_email |-> a, users |-> us]) :
                 n \in BOOLEAN, e \in BOOLEAN, s \in BOOLEAN, a \in Recipients,
                 us \in UserLists}

WorkHours == Some([start_time |-> 0, end_time |-> 1])

SendModes == {"email_now", "schedule"}

EndTimes == {None, Some(0), Some(1)}

MailInit ==
  /\ InitStore
  /\ std = WorkHours
  /\ rule \in EmailRules
  /\ cond = None

MailNext ==
  \/ Tick
  \/ \E u \in Users, mode \in SendModes :
       /\ db.wl_seq = 0
       /\ Len(outbox) < MaxMail
       /\ create_work_log(u, Some(0), None, None, "", OneEntry, mode, TRUE)
  \/ \E pk \in 1..db.wl_seq : UpdateGet(db.worklogs[pk].author, pk)
  \/ \E d \in Dates, mode \in SendModes :
       /\ db.entry_seq < MaxEntryIds
       /\ Len(outbox) < MaxMail
       /\ UpdateCommit(Some(d), None, None, "", OneEntry, mode, TRUE)
  \/ \E u \in Users, pk \in 1..db.wl_seq, ok \in BOOLEAN :
       /\ Len(outbox) < MaxMail
       /\ send_work_log_now(u, pk, ok)
  \/ SweepStart
  \/ \E ok \in BOOLEAN :
       /\ Len(outbox) < MaxMail
       /\ SweepStep(ok)

MailSpec == MailInit /\ [][MailNext]_vars

\* The scheduled e-mail left to the sweep: the rule allows the creation e-mail
\* of the author (send_new, a recipient, scheduled sending, the author not
\* excluded by the list), the transport delivers, the sweep runs again and again.
SweepRules ==
  {Some([send_new |-> TRUE, send_edit |-> e, enable_scheduled_send |-> TRUE,
         recipient_email |-> <<"o", "p", "s">>, users |-> us]) :
     e \in BOOLEAN, us \in UserLists}

SweepInit ==
  /\ InitStore
  /\ std = WorkHours
  /\ rule \in SweepRules
  /\ cond = None

SweepNext ==
  \/ Tick
  \/ \E d \in Dates :
       /\ db.wl_seq = 0
       /\ create_work_log("u1", Some(d), None, None, "", OneEntry, "schedule", TRUE)
  \/ SweepStart
  \/ SweepStep(TRUE)

SweepSpec ==
  /\ SweepInit
  /\ [][SweepNext]_vars
  /\ WF_vars(Tick)
  /\ WF_vars(SweepStart)
  /\ WF_vars(SweepStep(TRUE))

\* One run of the sweep at a time over the scheduled e-mails of two work logs,
\* the transport failing or not for each row; no rule, scheduled sending
\* disabled, or enabled.
RunRules ==
  {None} \cup {Some([send_new |-> TRUE, send_edit |-> TRUE, enable_scheduled_send |-> s,
                     recipient_email |-> <<"o", "p", "s">>, users |-> {"u1"}]) :
                 s \in BOOLEAN}

RunInit ==
  /\ InitStore
  /\ std = WorkHours
  /\ rule \in RunRules
  /\ cond = None

RunNext ==
  \/ Tick
  \/ \E d \in Dates, end \in EndTimes :
       /\ db.wl_seq < MaxWorkLogs
       /\ create_work_log("u1", Some(d), None, end, "", OneEntry, "schedule", TRUE)
  \/ SweepStart
  \/ \E ok \in BOOLEAN : SweepStep(ok)

RunSpec == RunInit /\ [][RunNext]_vars

\* Scheduling at creation: every due date and end time, with and without the
\* standard hours, at every instant of the clock; the rule lets the author's
\* e-mail through.
ScheduleInit ==
  /\ InitStore
  /\ std \in {None, WorkHours}
  /\ rule = Some([send_new |-> TRUE, send_edit |-> TRUE, enable_scheduled_send |-> TRUE,
                  recipient_email |-> <<"o", "p", "s">>, users |-> {"u1"}])
  /\ cond = None

ScheduleNext ==
  \/ Tick
  \/ \E d \in Dates, end \in EndTimes, ok \in BOOLEAN :
       /\ db.wl_seq < MaxWorkLogs
       /\ create_work_log("u1", Some(d), None, end, "", OneEntry, "schedule", ok)

ScheduleSpec == ScheduleInit /\ [][ScheduleNext]_vars

\* Work-log numbers: both authors create for every due date, with an entry the
\* store accepts or one it refuses; the designated account deletes.
NumberPayloads ==
  {OneEntry, <<[state |-> "open", job |-> "job", time_hours |-> TimeHoursLimit]>>}

NumberNext ==
  \/ \E u \in Users, due \in Dates, payload \in NumberPayloads :
       /\ db.wl_seq < MaxWorkLogs
       /\ db.entry_seq < MaxEntryIds
       /\ create_work_log(u, Some(due), None, None, "", payload, "email_now", TRUE)
  \/ \E u \in Users, pk \in 1..db.wl_seq : delete_work_log(u, pk)

NumberSpec == Init /\ [][NumberNext]_vars

\* Deletion: work logs of the first author, delete requests of every account.
DeleteNext ==
  \/ Tick
  \/ \E due \in Dates :
       /\ db.wl_seq < MaxWorkLogs
       /\ db.entry_seq < MaxEntryIds
       /\ create_work_log("u1", Some(due), None, None, "", OneEntry, "email_now", TRUE)
  \/ \E u \in Accounts, pk \in 1..db.wl_seq : delete_work_log(u, pk)

DeleteSpec == Init /\ [][DeleteNext]_vars

\* The InventorySettings row: two requests that may overlap, through either
\* view, and the admin deleting rows.
SettingsNext ==
  \/ \E r \in Requests, view \in SettingsViews : SettingsLookup(r, view)
  \/ \E r \in Requests :
       /\ inv.settings_seq < MaxSettingsIds
       /\ SettingsCreate(r)
  \/ \E pk \in 1..inv.settings_seq : SettingsDelete(pk)

SettingsSpec == Init /\ [][SettingsNext]_vars

\* The inventory list and the page of an item: items on two racks, the list
\* sorted by rack, every form of the page size and the rack filter.
ItemData(names, racks, descriptions, unit_ids) ==
  [rack : racks, shelf : {<<"a">>}, box : {<<"1">>}, name : names,
   part_description : descriptions, unit_id : unit_ids, quantity_in_stock : {0},
   reorder_level : {None}, discontinued : {FALSE}]

ListParams(sorts, dirs, page_sizes, pages, rack_filters, unit_filters) ==
  [sort : sorts, dir : dirs, page_size : page_sizes, page : pages,
   rack_filter : rack_filters, unit_filter : unit_filters, reorder_filter : {""}]

Racks == {1, 2}

PageData == ItemData({<<"a", "b">>}, Racks, {<<>>}, {ROLL})

PageSizeInputs == {None, Some(All), Some(<<"5", "0">>), Some(<<"1">>)}

LocateParams ==
  ListParams({"rack"}, {"asc", "desc"}, PageSizeInputs, {None}, {<<>>, <<"1">>}, {<<>>})

PageParams ==
  ListParams({"rack"}, {"asc", "desc"}, PageSizeInputs, {None, Some(<<"2">>)},
             {<<>>, <<"1">>}, {<<>>})

PageNext ==
  \/ \E data \in PageData, params \in LocateParams :
       /\ inv.item_seq < MaxItems
       /\ create_item("u1", data, params)
  \/ \E item_id \in 1..MaxItems, rack \in {0, 2}, params \in LocateParams :
       move_location("u1", item_id, rack, <<"a">>, <<"1">>, params)
  \/ \E params \in PageParams : home_view("u1", params)

PageSpec == Init /\ [][PageNext]_vars

\* The unit filter: the admin may add the unit ROLLS, items are created with
\* the units of the table, and the list is filtered by a code or an alias.
UnitData == ItemData({<<"a", "b">>}, {1}, {<<>>}, {ROLL, ROLLS, M})

UnitFilters == {<<>>, ROLL, ROLLS, <<"r", "o", "l", "l", "s">>, M}

UnitParams ==
  ListParams({"rack"}, {"asc"}, {None, Some(<<"5", "0">>)}, {None}, {<<>>}, UnitFilters)

UnitNext ==
  \/ unit_add(ROLLS)
  \/ \E data \in UnitData :
       /\ inv.item_seq < MaxItems
       /\ create_item("u1", data, Only(ListParams({""}, {""}, {None}, {None}, {<<>>}, {<<>>})))
  \/ \E params \in UnitParams : home_view("u1", params)

UnitSpec == Init /\ [][UnitNext]_vars

\* The sorted list: items whose names start with a digit, a lower-case or an
\* upper-case letter, on two racks, one of them with a description, listed
\* under every sort key and direction.
Names == {<<"2", "b">>, <<"a", "b">>, <<"B">>}

SortData ==
  ItemData(Names, Racks, {<<>>}, {ROLL}) \cup ItemData({<<"a", "b">>}, {1}, {<<"a">>}, {ROLL})

SortParams ==
  ListParams(allowed_sorts \cup {"group"}, {"asc", "desc"}, {None}, {None}, {<<>>}, {<<>>})

SortNext ==
  \/ \E data \in SortData :
       /\ inv.item_seq < MaxItems
       /\ create_item("u1", data, Only(ListParams({""}, {""}, {None}, {None}, {<<>>}, {<<>>})))
  \/ \E params \in SortParams : home_view("u1", params)

SortSpec == Init /\ [][SortNext]_vars

\* The numeric page window of a paginated list of 1..MaxPages pages.
WindowNext ==
  \E num_pages \in 1..MaxPages, current_page_number \in 1..MaxPages :
     /\ current_page_number <= num_pages
     /\ PageWindow(current_page_number, num_pages)

WindowSpec == Init /\ [][WindowNext]_vars

\* The for-reorder flag: items created, imported (a stock that may be missing)
\* and edited in place, listed with the reorder filter and the for_reorder sort.
ReorderData ==
  [rack : {1}, shelf : {<<"a">>}, box : {<<"1">>}, name : {<<"a", "b">>},
   part_description : {<<>>}, unit_id : {ROLL}, quantity_in_stock : {0, 1},
   reorder_level : {None, Some(0)}, discontinued : {FALSE}]

ReorderRows ==
  [localization : {<<"1", "-", "a", "-", "1">>}, name : {<<"a", "b">>},
   quantity_in_stock : {None}, reorder_level : {None}, discontinued : {FALSE}]

ReorderEdits ==
  {<<"discontinued", Some(<<"1">>)>>, <<"reorder_level", Some(<<"0">>)>>,
   <<"reorder_level", Some(<<>>)>>}

ReorderParams ==
  [sort : {"for_reorder"}, dir : {"asc"}, page_size : {None}, page : {None},
   rack_filter : {<<>>}, unit_filter : {<<>>}, reorder_filter : {"", "yes", "no"}]

ReorderNext ==
  \/ \E data \in ReorderData :
       /\ inv.item_seq < MaxItems
       /\ create_item("u1", data, Only(ListParams({""}, {""}, {None}, {None}, {<<>>}, {<<>>})))
  \/ \E row \in ReorderRows :
       /\ inv.item_seq < MaxItems
       /\ import_inventory_from_excel(row)
  \/ \E item_id \in 1..MaxItems, edit \in ReorderEdits :
       update_field("u1", item_id, edit[1], edit[2])
  \/ \E params \in ReorderParams : home_view("u1", params)

ReorderSpec == Init /\ [][ReorderNext]_vars

\* The shelf column: every way a shelf is written, with texts in lower case,
\* blank, empty, too long or missing.
ShelfTexts == {<<"a">>, <<"B">>, <<" ">>, <<"a", "b">>, <<>>}

ShelfData ==
  [rack : {1}, shelf : ShelfTexts, box : {<<"1">>}, name : {<<"a", "b">>},
   part_description : {<<>>}, unit_id : {ROLL}, quantity_in_stock : {0},
   reorder_level : {None}, discontinued : {FALSE}]

ShelfRows ==
  [localization : {<<"1", "-", "a", "-", "1">>, <<"1">>, <<"1", "-", "-", "1">>,
                   <<"1", "-", "a", "b">>, <<>>},
   name : {<<"a", "b">>}, quantity_in_stock : {None}, reorder_level : {None},
   discontinued : {FALSE}]

ShelfNext ==
  \/ \E data \in ShelfData :
       /\ inv.item_seq < MaxItems
       /\ create_item("u1", data, Only(ListParams({""}, {""}, {None}, {None}, {<<>>}, {<<>>})))
  \/ \E row \in ShelfRows :
       /\ inv.item_seq < MaxItems
       /\ import_inventory_from_excel(row)
  \/ \E item_id \in 1..MaxItems, value \in {None} \cup {Some(t) : t \in ShelfTexts} :
       update_field("u1", item_id, "shelf", value)
  \/ \E item_id \in 1..MaxItems, shelf \in ShelfTexts :
       move_location("u1", item_id, 1, shelf, <<"1">>,
                     Only(ListParams({""}, {""}, {None}, {None}, {<<>>}, {<<>>})))

ShelfSpec == Init /\ [][ShelfNext]_vars

\* The accounts: the profile form, and the deletion of an item confirmed by
\* the password.
Opened == <<"o", "p", "e", "n", "e", "d">>

Passwords == {<<>>, Sesame, Opened}

NewPasswords == {<<>>, <<"o", "p", "e", "n">>, Opened}

Emails == {<<>>, <<"a", "@", "b", ".", "d", "e">>, <<"a", "b">>}

AccountNext ==
  \/ \E data \in ItemData({<<"a", "b">>}, {1}, {<<>>}, {ROLL}) :
       /\ inv.item_seq < MaxItems
       /\ create_item("u1", data, Only(ListParams({""}, {""}, {None}, {None}, {<<>>}, {<<>>})))
  \/ \E u \in Users, item_id \in 0..MaxItems, password \in Passwords :
       delete_item(u, item_id, password)
  \/ \E u \in Users, email \in Emails, preferred_name \in {<<>>, <<"b">>},
        old_password \in Passwords, new_password \in NewPasswords,
        new_password_confirm \in NewPasswords \ {<<>>} :
       user_profile(u, email, preferred_name, old_password, new_password,
                    new_password_confirm)

AccountSpec == Init /\ [][AccountNext]_vars

\* Working hours: the author creates and updates work logs with every start
\* and end time of the form, given or left empty, with and without the
\* standard hours.
TimeInputs == {None} \cup {Some(t) : t \in 0..(TicksPerDay - 1)}

HoursInit ==
  /\ InitStore
  /\ std \in {None, WorkHours}
  /\ rule = None
  /\ cond = None

HoursNext ==
  \/ \E d \in Dates, start \in TimeInputs, end \in TimeInputs :
       /\ db.wl_seq < MaxWorkLogs
       /\ db.entry_seq < MaxEntryIds
       /\ create_work_log("u1", Some(d), start, end, "", OneEntry, "email_now", TRUE)
  \/ \E pk \in 1..db.wl_seq : UpdateGet("u1", pk)
  \/ \E start \in TimeInputs, end \in TimeInputs :
       /\ db.entry_seq < MaxEntryIds
       /\ UpdateCommit(Some(0), start, end, "", OneEntry, "email_now", TRUE)

HoursSpec == HoursInit /\ [][HoursNext]_vars

\* A user's stars and notes: two requests of the user at a time, each a star
\* or a note on the one item of the inventory or on an item that is not there.
Colors == {<<>>, <<"r", "e", "d">>, <<"o", "d", "d">>}

Notes == {<<>>, <<"a">>}

MetaNext ==
  \/ \E data \in ItemData({<<"a", "b">>}, {1}, {<<>>}, {ROLL}) :
       /\ inv.item_seq = 0
       /\ create_item("u1", data, Only(ListParams({""}, {""}, {None}, {None}, {<<>>}, {<<>>})))
  \/ \E r \in Requests, item_id \in 0..MaxItems, color \in Colors :
       update_favorite(r, "u2", item_id, color)
  \/ \E r \in Requests, item_id \in 0..MaxItems, note \in Notes :
       update_note(r, "u2", item_id, note)
  \/ \E r \in Requests : MetaSave(r)

MetaSpec == Init /\ [][MetaNext]_vars

\* ------------------------------------------------------------------ claims
Tables(d) == <<d.worklogs, d.entries, d.history>>

FailedSave(r) ==
  /\ r.op \in {"create_work_log", "update_work_log"}
  /\ r.phase \in {"done", "commit"}
  /\ r.status # 200

\* C7: create_work_log and update_work_log are all-or-nothing: a request that
\* answers with a failure leaves no work log and no entry of its own behind, and
\* leaves every stored work log, entry and history record as it was.
C7_AllOrNothing ==
  [][FailedSave(resp') => Tables(db') = Tables(db)]_vars

\* an update failed on one of its entries and the work log still has its
\* previous entries
C7_Witness ==
  /\ resp.op = "update_work_log" /\ resp.phase = "commit" /\ resp.status = 500
  /\ resp.pk \in Ids(db.worklogs)
  /\ EntriesOf(db, resp.pk) # {}

\* the entries of work log wl, in the order of their keys
RECURSIVE InKeyOrder(_, _)
InKeyOrder(d, ids) ==
  IF ids = {} THEN <<>>
  ELSE LET e == CHOOSE x \in ids : \A y \in ids : x <= y
       IN <<[state |-> d.entries[e].state, job |-> d.entries[e].job,
             time_hours |-> d.entries[e].time_hours]>> \o InKeyOrder(d, ids \ {e})

\* C8: after a successful update_work_log submitting M entries, the work log
\* has exactly the M submitted entries and none of the entries it had before.
C8_FullReplace ==
  [][(resp'.op = "update_work_log" /\ resp'.phase = "commit" /\ resp'.status = 200)
       => /\ InKeyOrder(db', EntriesOf(db', resp'.pk)) = resp'.arg
          /\ EntriesOf(db', resp'.pk) \cap Ids(db.entries) = {}]_vars

\* a work log created with one entry was updated with two
C8_Witness ==
  /\ resp.op = "update_work_log" /\ resp.phase = "commit" /\ resp.status = 200
  /\ Len(resp.arg) = 2
  /\ db.wl_seq = 1 /\ db.entry_seq = 3
  /\ EntriesOf(db, resp.pk) = {2, 3}

\* row i was created before row j
CreatedBefore(d, i, j) ==
  \/ d.worklogs[i].created_at < d.worklogs[j].created_at
  \/ d.worklogs[i].created_at = d.worklogs[j].created_at /\ i < j

\* C9: update_work_log goes on to change a work log only if the requester is
\* its author and every configured edit constraint holds when the request is
\* made (the author's most recent work log when only_last_wl_editable is set,
\* no more than editable_time_since_created hours since creation when that is
\* nonzero); otherwise it answers 403 and stores nothing.  The store is changed
\* by update_work_log only for a request that passed this check.
C9_EditOnlyWhenAllowed ==
  [][/\ (resp'.op = "update_work_log" /\ resp'.phase = "get"
          /\ resp'.pk \in Ids(db.worklogs))
        => LET pk == resp'.pk
               u == resp'.user
               only_last == ~IsNull(cond) /\ Val(cond).only_last_wl_editable
               hours == IF IsNull(cond) THEN 0 ELSE Val(cond).editable_time_since_created
               is_last == \A j \in Ids(db.worklogs) \ {pk} :
                            db.worklogs[j].author = u => CreatedBefore(db, j, pk)
               in_window == (now - db.worklogs[pk].created_at) * 24 <= hours * TicksPerDay
               allowed == /\ db.worklogs[pk].author = u
                          /\ only_last => is_last
                          /\ hours # 0 => in_window
           IN IF allowed
              THEN resp'.status = 0 /\ upd' = Some([id |-> pk, user |-> u, wl |-> db.worklogs[pk]])
              ELSE resp'.status = 403 /\ upd' = None /\ db' = db
     /\ (resp'.op = "update_work_log" /\ db' # db)
        => resp'.phase = "commit" /\ ~IsNull(upd) /\ Val(upd).id = resp'.pk]_vars

\* with only_last_wl_editable set and no time limit in the way, the author was
\* refused the edit of the older of two work logs
C9_Witness ==
  /\ resp.op = "update_work_log" /\ resp.phase = "get" /\ resp.status = 403
  /\ resp.pk \in Ids(db.worklogs)
  /\ db.worklogs[resp.pk].author = resp.user
  /\ ~IsNull(cond) /\ Val(cond).only_last_wl_editable
  /\ Val(cond).editable_time_since_created = 0
  /\ \E j \in Ids(db.worklogs) :
       db.worklogs[j].author = resp.user /\ CreatedBefore(db, resp.pk, j)

\* the history records of entry e, oldest first
HistoryOf(d, e) == SelectSeq(d.history, LAMBDA h : h.entry = e)

\* C4: every recorded state change has old_state different from new_state, and
\* no two consecutive history records of an entry carry the same
\* (old_state, new_state) pair.
C4_NoRepeatedRecord ==
  \A e \in Ids(db.entries) :
    LET h == HistoryOf(db, e)
    IN /\ \A i \in 1..Len(h) : h[i].old_state # h[i].new_state
       /\ \A i \in 1..(Len(h) - 1) :
            <<h[i].old_state, h[i].new_state>> # <<h[i + 1].old_state, h[i + 1].new_state>>

\* C5: change_worklog_entry_state called with the entry's current state
\* answers success, writes no history record, and leaves the entry's state and
\* the existing history as they were.
C5_SameStateIsNoOp ==
  [][(/\ resp'.op = "change_worklog_entry_state" /\ resp'.phase = "get"
      /\ resp'.pk \in Ids(db.entries)
      /\ resp'.arg = db.entries[resp'.pk].state)
       => resp'.status = 200 /\ db' = db /\ chg' = chg]_vars

\* a request naming the current state of an entry that has a history was answered
C5_Witness ==
  /\ resp.op = "change_worklog_entry_state" /\ resp.phase = "get"
  /\ resp.pk \in Ids(db.entries)
  /\ resp.arg = db.entries[resp.pk].state
  /\ HistoryOf(db, resp.pk) # <<>>

\* C6: the state-change history is append-only: no step removes or alters a
\* record that has been written.
C6_HistoryAppendOnly ==
  [][/\ Len(db'.history) >= Len(db.history)
     /\ SubSeq(db'.history, 1, Len(db.history)) = db.history]_vars


PendingDue(w) ==
  /\ w \in Ids(db.worklogs)
  /\ db.worklogs[w].email_pending
  /\ ~IsNull(db.worklogs[w].email_scheduled_at)
  /\ Val(db.worklogs[w].email_scheduled_at) <= now

MarkedSent(w) ==
  /\ w \in Ids(db.worklogs)
  /\ ~db.worklogs[w].email_pending
  /\ ~IsNull(db.worklogs[w].email_sent_at)

\* C1: a work log that create_work_log left pending is, once its scheduled
\* time has passed, eventually marked sent (email_pending false, email_sent_at
\* set) by the sweep, the rule staying as it was at creation.
C1_PendingEventuallySent ==
  \A w \in 1..MaxWorkLogs : [](PendingDue(w) => <>MarkedSent(w))

SweepDelivers(box0, box1) ==
  /\ Len(box1) = Len(box0) + 1
  /\ box1[Len(box1)].kind = "delivered"
  /\ box1[Len(box1)].op = "sweep"

\* C2: the sweep delivers the e-mail of a work log only while that work log is
\* still pending and not marked sent, whatever send_work_log_now and
\* update_work_log did to it in the meantime.
C2_SweepSendsOnlyPending ==
  [][SweepDelivers(outbox, outbox') =>
       LET w == outbox'[Len(outbox')].wl
       IN /\ w \in Ids(db.worklogs)
          /\ db.worklogs[w].email_pending
          /\ IsNull(db.worklogs[w].email_sent_at)]_vars

\* C3: the wl_number of a stored work log is never changed by a later step:
\* an update (of the due date too), a scheduling, a send.
C3_NumberNeverChanges ==
  [][\A i \in Ids(db.worklogs) \cap Ids(db'.worklogs) :
       db'.worklogs[i].wl_number = db.worklogs[i].wl_number]_vars

\* a work log whose due date was changed after its number was given, and
\* whose e-mail was scheduled or sent
C3_Witness ==
  \E i \in Ids(db.worklogs) :
    /\ db.worklogs[i].wl_number[2] # DueStr(db.worklogs[i].due_date)
    /\ db.worklogs[i].email_pending \/ ~IsNull(db.worklogs[i].email_sent_at)
    /\ resp.op = "update_work_log" /\ resp.status = 200

\* C10: the gate (_get_email_rule) and the sender (send_worklog_docx_email)
\* decide identically, for every user and operation, under the stored rule.
C10_GateAndSenderAgree ==
  \A u \in Users, is_new \in BOOLEAN :
    IsNull(get_email_rule(rule, u, is_new)) <=> IsNull(sender_recipient(rule, u, is_new))


Created(r) == r.op = "create_work_log" /\ r.status = 200

\* the instant the claim names: the target, one day later when it is not
\* strictly after t
RolledTarget(row, t) ==
  IF Combine(row.due_date, Val(row.end_time)) > t
  THEN Combine(row.due_date, Val(row.end_time))
  ELSE Combine(row.due_date, Val(row.end_time)) + TicksPerDay

\* C11: in schedule mode the target combine(due_date, end_time or standard end
\* time) is rolled forward by one day exactly when it is not strictly after
\* now; the work log is left pending at that instant exactly when the instant
\* is strictly after now, with nothing delivered; otherwise a send is attempted
\* at once and the work log is not pending.
C11_ScheduleTarget ==
  [][Created(resp') =>
       LET row == db'.worklogs[resp'.pk]
       IN IF IsNull(row.end_time)
          THEN ~row.email_pending /\ outbox' = outbox
          ELSE IF RolledTarget(row, now) > now
          THEN /\ row.email_pending
               /\ row.email_scheduled_at = Some(RolledTarget(row, now))
               /\ IsNull(row.email_sent_at)
               /\ outbox' = Append(outbox, MailEvent("scheduled", resp'.pk, "create"))
          ELSE /\ ~row.email_pending
               /\ \/ /\ row.email_sent_at = Some(now)
                     /\ outbox' = Append(outbox, MailEvent("delivered", resp'.pk, "create"))
                  \/ /\ IsNull(row.email_sent_at)
                     /\ outbox' = outbox]_vars

\* a work log created when its target was exactly now: scheduled one day later
C11_Witness ==
  /\ Created(resp)
  /\ db.worklogs[resp.pk].email_pending
  /\ db.worklogs[resp.pk].created_at = now
  /\ db.worklogs[resp.pk].email_scheduled_at = Some(now + TicksPerDay)


EmailFields(row) == <<row.email_pending, row.email_scheduled_at, row.email_sent_at>>

FieldsConsistent(d) ==
  \A i \in Ids(d.worklogs) :
    /\ d.worklogs[i].email_pending =>
         ~IsNull(d.worklogs[i].email_scheduled_at) /\ IsNull(d.worklogs[i].email_sent_at)
    /\ ~d.worklogs[i].email_pending => IsNull(d.worklogs[i].email_scheduled_at)

Logged(box0, box1, kind) ==
  Len(box1) = Len(box0) + 1 /\ box1[Len(box1)].kind = kind

\* C12: after every step of create_work_log, update_work_log, send_work_log_now
\* and the sweep the e-mail fields of every work log are consistent (pending
\* implies a scheduled instant and no sent instant, not pending implies no
\* scheduled instant); a scheduling writes (true, target, null), a successful
\* send writes (false, null, now), a failed send leaves the three fields as
\* they were (as the request saved them, for create and update).
C12_EmailFieldsConsistent ==
  [][/\ FieldsConsistent(db')
     /\ Logged(outbox, outbox', "scheduled") =>
          LET row == db'.worklogs[outbox'[Len(outbox')].wl]
          IN EmailFields(row) = <<TRUE, Some(RolledTarget(row, now)), None>>
     /\ Logged(outbox, outbox', "delivered") =>
          LET w == outbox'[Len(outbox')].wl
          IN w \in Ids(db'.worklogs) =>
               EmailFields(db'.worklogs[w]) = <<FALSE, None, Some(now)>>
     /\ (outbox' = outbox /\ resp'.op \in {"send_work_log_now", "send_pending_worklogs"})
          => db' = db
     /\ (outbox' = outbox /\ Created(resp')) =>
          EmailFields(db'.worklogs[resp'.pk]) = <<FALSE, None, None>>
     /\ (outbox' = outbox /\ resp'.op = "update_work_log" /\ resp'.phase = "commit"
           /\ resp'.status = 200) =>
          EmailFields(db'.worklogs[resp'.pk]) = EmailFields(Val(upd).wl)]_vars

\* a work log that was pending and that the sweep then marked sent
C12_Witness ==
  /\ resp.op = "send_pending_worklogs"
  /\ \E k \in 1..Len(outbox) :
       /\ outbox[k].kind = "scheduled"
       /\ k < Len(outbox)
       /\ outbox[Len(outbox)] = MailEvent("delivered", outbox[k].wl, "sweep")
       /\ outbox[k].wl \in Ids(db.worklogs)
       /\ EmailFields(db.worklogs[outbox[k].wl]) = <<FALSE, None, Some(now)>>


Sweeping(r, phase) == r.op = "send_pending_worklogs" /\ r.phase = phase

DueUnsent(d) ==
  {w \in Ids(d.worklogs) : PendingDue(w) /\ IsNull(d.worklogs[w].email_sent_at)}

OthersUntouched(d0, d1, w) ==
  /\ Ids(d1.worklogs) = Ids(d0.worklogs)
  /\ \A i \in Ids(d0.worklogs) \ {w} : d1.worklogs[i] = d0.worklogs[i]
  /\ d1.entries = d0.entries

\* C13: a run of the sweep selects exactly the work logs that are pending,
\* scheduled at or before now and not sent, each once; each turn of its loop
\* handles the next selected row and no other: a delivery marks it sent, a
\* failure leaves it as it was, still pending, and the loop goes on; the run
\* reports sent + failed = the number of selected rows. Without a rule row or
\* with scheduled sending disabled the sweep delivers nothing and writes nothing.
C13_SweepRun ==
  [][/\ Sweeping(resp', "start") =>
          /\ {swp'[1].qs[k] : k \in DOMAIN swp'[1].qs} = DueUnsent(db)
          /\ Len(swp'[1].qs) = Cardinality(DueUnsent(db))
          /\ [k \in DOMAIN swp'[1].todo |-> swp'[1].todo[k].id] = swp'[1].qs
          /\ db' = db /\ outbox' = outbox
     /\ Sweeping(resp', "loop") =>
          LET w == Head(swp[1].todo).id
          IN /\ swp'[1].todo = Tail(swp[1].todo)
             /\ swp'[1].qs = swp[1].qs
             /\ OthersUntouched(db, db', w)
             /\ \/ /\ outbox' = Append(outbox, MailEvent("delivered", w, "sweep"))
                   /\ EmailFields(db'.worklogs[w]) = <<FALSE, None, Some(now)>>
                   /\ swp'[1].sent = swp[1].sent + 1 /\ swp'[1].failed = swp[1].failed
                \/ /\ outbox' = outbox
                   /\ db' = db
                   /\ db.worklogs[w].email_pending
                   /\ swp'[1].sent = swp[1].sent /\ swp'[1].failed = swp[1].failed + 1
     /\ (Sweeping(resp', "done") /\ ~IsNull(swp)) =>
          /\ resp'.arg = <<swp[1].sent, swp[1].failed>>
          /\ swp[1].sent + swp[1].failed = Len(swp[1].qs)
          /\ db' = db /\ outbox' = outbox
     /\ (resp'.op = "send_pending_worklogs"
           /\ (IsNull(rule) \/ ~Val(rule).enable_scheduled_send)) =>
          /\ IsNull(swp) /\ IsNull(swp')
          /\ db' = db /\ outbox' = outbox]_vars

\* the end of a run over two selected rows, one delivered and one failed
C13_Witness ==
  /\ Sweeping(resp, "done")
  /\ resp.arg = <<1, 1>>
  /\ \E i, j \in Ids(db.worklogs) :
       /\ db.worklogs[i].email_pending
       /\ ~IsNull(db.worklogs[j].email_sent_at)


Collides(d, due, u) ==
  \E i \in Ids(d.worklogs) : d.worklogs[i].wl_number = WlNumber(due, u)

\* C14: a create_work_log whose input is valid and whose number (author
\* segment, due date) is that of a stored work log answers 400 with the
\* duplicate message, not the save-failed one, and stores neither the work log
\* nor any of its entries; no two stored work logs share a wl_number.
C14_DuplicateNumber ==
  [][/\ \A u \in Users, due \in Dates, payload \in NumberPayloads :
          (/\ resp'.op = "create_work_log"
           /\ resp'.user = u
           /\ Collides(db, due, u)
           /\ create_work_log(u, Some(due), None, None, "", payload, "email_now", TRUE))
          => /\ resp'.status = 400
             /\ resp'.arg = <<"duplicate">>
             /\ Tables(db') = Tables(db)
     /\ \A i, j \in Ids(db'.worklogs) :
          db'.worklogs[i].wl_number = db'.worklogs[j].wl_number => i = j]_vars

\* a creation refused as a duplicate, the work log it collided with still stored
C14_Witness ==
  /\ resp.op = "create_work_log"
  /\ resp.status = 400
  /\ resp.arg = <<"duplicate">>
  /\ \E i \in Ids(db.worklogs) : db.worklogs[i].author = resp.user


DesignatedName == <<"l", "e", "o", "-", "a", "d", "m", "i", "n">>

\* C15: a delete_work_log request of a user whose username is not exactly the
\* designated one, a username in another letter case included, is answered 403
\* and leaves the work log and its entries stored.
C15_DeleteOnlyExactName ==
  [][(resp'.op = "delete_work_log" /\ UserTable[resp'.user].username # DesignatedName)
       => resp'.status = 403 /\ Tables(db') = Tables(db)]_vars


\* C16: after the accesses that found the InventorySettings row missing have
\* created it, overlapping ones included, there is one row and no more.
C16_OneSettingsRow ==
  Cardinality(inv.settings) <= 1

Range(s) == {s[i] : i \in DOMAIN s}

\* page n of a list home_view may show holds the item
OnHomePage(h, item_id, n) ==
  \E order \in h.lists :
    IF h.page_size = None
    THEN n = 1 /\ item_id \in Range(order)
    ELSE /\ n <= NumPages(Len(order), Val(h.page_size))
         /\ item_id \in Range(PageRows(order, Val(h.page_size), n))

Located(r) == r.op \in {"create_item", "move_location"} /\ r.status = 200

\* C17: the page create_item and move_location return for the item is the page
\* on which home_view, called by the same user with the same sort key,
\* direction, page size and filters, lists the item.
C17_PageOfItem ==
  [][Located(resp') =>
       \A n \in 1..Cardinality(Ids(inv'.items)) :
         OnHomePage(HomeLists(inv', resp'.user, resp'.arg.params), resp'.pk, n)
           => n = resp'.arg.page]_vars

\* the items of the unit ROLL: by the foreign key or by the legacy text
OfUnitRoll(item) ==
  \/ item.unit # None /\ Val(item.unit) = ROLL
  \/ item.units \in {ROLL, ROLLS}

\* C18: home_view filtered by the alias ROLLS lists exactly the items whose unit
\* code is ROLL or whose legacy units text is ROLL or ROLLS, as filtering by
\* ROLL does, and no item of another unit.
C18_UnitAlias ==
  [][(/\ resp'.op = "home_view"
      /\ Upper(Strip(resp'.arg.params.unit_filter)) = ROLLS
      /\ resp'.arg.params.rack_filter = <<>>)
     => Range(resp'.arg.items) = {i \in Ids(inv.items) : OfUnitRoll(inv.items[i])}]_vars

Location(item) == <<item.rack, item.shelf, item.box>>

Listed(r) == r.op = "home_view" /\ r.status = 200

\* C19: under every allowed sort key and either direction, two listed items
\* that differ in (rack, shelf, box) come in the same relative order in every
\* list home_view may return for the same request, so that the pages of the
\* list partition the items.
C19_TieBreakByLocation ==
  [][Listed(resp') =>
       \A list \in HomeLists(inv, resp'.user, resp'.arg.params).lists :
         \A i, j \in Range(resp'.arg.items) :
           Location(inv.items[i]) # Location(inv.items[j])
             => (IndexIn(i, resp'.arg.items) < IndexIn(j, resp'.arg.items)
                   <=> IndexIn(i, list) < IndexIn(j, list))]_vars

StartsWithDigit(name) == name # <<>> /\ IndexIn(name[1], Digits) > 0

LocationLess(a, b) ==
  \/ a.rack < b.rack
  \/ a.rack = b.rack /\ KeyLess(TextKey(a.shelf), TextKey(b.shelf))
  \/ a.rack = b.rack /\ a.shelf = b.shelf /\ KeyLess(TextKey(a.box), TextKey(b.box))

\* row a may be listed before row b when sorting by name
NameOrdered(a, b, dir) ==
  /\ StartsWithDigit(b.name) => StartsWithDigit(a.name)
  /\ StartsWithDigit(a.name) = StartsWithDigit(b.name)
       => /\ IF dir = "desc"
             THEN ~KeyLess(TextKey(Lower(a.name)), TextKey(Lower(b.name)))
             ELSE ~KeyLess(TextKey(Lower(b.name)), TextKey(Lower(a.name)))
          /\ Lower(a.name) = Lower(b.name) => ~LocationLess(b, a)

\* C20: sorted by name, in either direction, every item whose name starts with
\* a digit is listed before every item whose name does not; within each group
\* the items are in case-insensitive name order, ascending or descending as
\* requested, and equal names are in (rack, shelf, box) order.
C20_NameSort ==
  [][(Listed(resp') /\ resp'.arg.params.sort = "name")
     => \A m, n \in 1..Len(resp'.arg.items) :
          m < n => NameOrdered(inv.items[resp'.arg.items[m]],
                               inv.items[resp'.arg.items[n]],
                               resp'.arg.params.dir)]_vars

C20_Witness ==
  /\ Listed(resp)
  /\ resp.arg.params.sort = "name"
  /\ resp.arg.params.dir = "desc"
  /\ Len(resp.arg.items) = 2
  /\ StartsWithDigit(inv.items[resp.arg.items[1]].name)
  /\ inv.items[resp.arg.items[2]].name = <<"B">>

\* C21: a home_view request that carries a filter is answered with the whole
\* list (page size "all") whatever page size was requested or stored, and the
\* session keeps the page size it would hold without the filter.
C21_FilterForcesAll ==
  [][(/\ Listed(resp')
      /\ \/ Strip(resp'.arg.params.unit_filter) # <<>>
         \/ resp'.arg.params.rack_filter # <<>>)
     => /\ resp'.arg.page_size = None
        /\ inv'.session[resp'.user]
             = home_page_size(resp'.arg.params.page_size, inv.session[resp'.user]).stored]_vars

Contiguous(s) == \A i \in 1..(Len(s) - 1) : s[i + 1] = s[i] + 1

\* C22: with more than 7 pages the page numbers shown are 5 consecutive pages
\* within 2..num_pages-1, the current page among them unless it is the first
\* or the last; the leading ellipsis is shown iff the run starts after page 2
\* and the trailing one iff it ends before page num_pages-1. With 7 pages or
\* fewer every page is shown and no ellipsis.
C22_PageWindow ==
  resp.op = "page_numbers" =>
    IF resp.arg.num_pages > 7
    THEN /\ Len(resp.arg.window.page_numbers) = 5
         /\ Contiguous(resp.arg.window.page_numbers)
         /\ resp.arg.window.page_numbers[1] >= 2
         /\ resp.arg.window.page_numbers[5] <= resp.arg.num_pages - 1
         /\ (resp.arg.current_page_number \notin {1, resp.arg.num_pages}
               => resp.arg.current_page_number \in Range(resp.arg.window.page_numbers))
         /\ resp.arg.window.show_first_ellipsis <=> resp.arg.window.page_numbers[1] > 2
         /\ resp.arg.window.show_last_ellipsis
              <=> resp.arg.window.page_numbers[5] < resp.arg.num_pages - 1
    ELSE /\ resp.arg.window.page_numbers = FromTo(1, resp.arg.num_pages)
         /\ ~resp.arg.window.show_first_ellipsis
         /\ ~resp.arg.window.show_last_ellipsis

C22_Witness ==
  /\ resp.op = "page_numbers"
  /\ resp.arg.num_pages = 8
  /\ resp.arg.current_page_number = 8
  /\ resp.arg.window.page_numbers = <<3, 4, 5, 6, 7>>
  /\ resp.arg.window.show_first_ellipsis

\* the rule of the for-reorder flag
ReorderRule(item) ==
  /\ item.quantity_in_stock # None
  /\ item.reorder_level # None
  /\ ~item.discontinued
  /\ Val(item.quantity_in_stock) <= Val(item.reorder_level)

\* C23: for_reorder is true iff the stock and the reorder level are both set,
\* the item is not discontinued and the stock is at most the reorder level;
\* the annotation of the listing has the same value for every item, so the
\* reorder filter lists exactly the items for which the property is true
\* ("yes") or false ("no").
C23_ForReorder ==
  [][/\ \A i \in Ids(inv'.items) :
          /\ for_reorder(inv'.items[i]) <=> ReorderRule(inv'.items[i])
          /\ for_reorder_ann(inv'.items[i]) = (IF for_reorder(inv'.items[i]) THEN 1 ELSE 0)
     /\ (Listed(resp') /\ resp'.arg.params.reorder_filter = "yes")
          => Range(resp'.arg.items) = {i \in Ids(inv.items) : for_reorder(inv.items[i])}
     /\ (Listed(resp') /\ resp'.arg.params.reorder_filter = "no")
          => Range(resp'.arg.items) = {i \in Ids(inv.items) : ~for_reorder(inv.items[i])}]_vars

C23_Witness ==
  /\ Listed(resp)
  /\ resp.arg.params.reorder_filter = "yes"
  /\ Len(resp.arg.items) = 1
  /\ \E i \in Ids(inv.items) :
       /\ inv.items[i].discontinued
       /\ inv.items[i].reorder_level # None
       /\ inv.items[i].quantity_in_stock = inv.items[i].reorder_level
       /\ i \notin Range(resp.arg.items)

\* C24: the shelf of every stored item is one character, and that character
\* is in upper case.
C24_ShelfUppercase ==
  \A i \in Ids(inv.items) :
    /\ Len(inv.items[i].shelf) = 1
    /\ inv.items[i].shelf = Upper(inv.items[i].shelf)

\* C25: delete_item naming an item with a wrong password is answered with an
\* authorization error and the items are as before; an item is deleted only
\* for a requester with edit rights whose password was right, and only the
\* item named.
C25_DeleteNeedsPassword ==
  [][resp'.op = "delete_item" =>
       /\ resp'.arg.password # inv.accounts[resp'.user].password
            => /\ inv'.items = inv.items
               /\ resp'.pk # 0 => resp'.status = 403
       /\ inv'.items # inv.items
            => /\ user_can_edit(resp'.user)
               /\ resp'.arg.password = inv.accounts[resp'.user].password
               /\ inv'.items = Drop(inv.items, {resp'.pk})]_vars

C25_Witness ==
  /\ resp.op = "delete_item"
  /\ resp.status = 403
  /\ user_can_edit(resp.user)
  /\ resp.arg.password # <<>>
  /\ resp.pk \in Ids(inv.items)

\* C27: a user_profile POST answered with a validation error leaves the
\* user's e-mail, preferred name and password as they were.
C27_ProfileErrorKeepsAccount ==
  [][(resp'.op = "user_profile" /\ resp'.status = 400)
     => inv'.accounts = inv.accounts]_vars

\* C26: every stored work log that has a start time and an end time has its
\* end time strictly after its start time.
C26_EndAfterStart ==
  \A i \in Ids(db.worklogs) :
    (~IsNull(db.worklogs[i].start_time) /\ ~IsNull(db.worklogs[i].end_time))
      => Val(db.worklogs[i].end_time) > Val(db.worklogs[i].start_time)

\* C28: once no change_worklog_entry_state request is in flight, the history of
\* every entry is a chain: each record's old_state is the new_state of the
\* record before it, and the new_state of the latest record is the entry's
\* state.
C28_HistoryChain ==
  (\A r \in Requests : IsNull(chg[r])) =>
    \A e \in Ids(db.entries) :
      LET h == HistoryOf(db, e)
      IN /\ \A i \in 2..Len(h) : h[i].old_state = h[i - 1].new_state
         /\ h # <<>> => h[Len(h)].new_state = db.entries[e].state

\* C29: a finished update_favorite leaves the note of every meta row as it was
\* stored, a finished update_note the favorite_color, the requester's row for
\* the item holds the value submitted, and no (user, item) pair has two rows.
C29_StarAndNoteKept ==
  [][(resp'.op \in {"update_favorite", "update_note"} /\ resp'.status = 200) =>
       /\ \A i \in 1..Len(inv.meta) :
            /\ resp'.op = "update_favorite" => inv'.meta[i].note = inv.meta[i].note
            /\ resp'.op = "update_note"
                 => inv'.meta[i].favorite_color = inv.meta[i].favorite_color
       /\ \A i \in MetaOf(inv'.meta, resp'.user, resp'.pk) :
            IF resp'.op = "update_favorite"
            THEN inv'.meta[i].favorite_color = resp'.arg
            ELSE inv'.meta[i].note = resp'.arg
       /\ \A u \in Users, item \in 1..MaxItems :
            Cardinality(MetaOf(inv'.meta, u, item)) <= 1]_vars

\* the author has a stored work log whose due date is due
HasWorkLogFor(d, u, due) ==
  \E i \in Ids(d.worklogs) : d.worklogs[i].author = u /\ d.worklogs[i].due_date = due

\* C30: create_work_log by an author for a due date is answered with the
\* duplicate message if and only if the author has a stored work log whose
\* due date, as it is now, is that date.
C30_DuplicateIffSameDueDate ==
  [][\A u \in Users, due \in Dates, payload \in AggregatePayloads :
       (/\ payload # <<>>
        /\ \A k \in 1..Len(payload) : EntryPersistable(payload[k])
        /\ create_work_log(u, Some(due), None, None, "", payload, "email_now", TRUE))
       => ((resp'.status = 400 /\ resp'.arg = <<"duplicate">>)
             <=> HasWorkLogFor(db, u, due))]_vars

=============================================================================
